---- MODULE Spec2Model ----
(***************************************************************************)
(* goframe: the SQL write bridge (DataFrame.ToSQL / ToSQLContext / ToSQLTx *)
(* / ToSQLTxContext) as a state machine.  One action per database call of  *)
(* the write, together with the code that runs up to the next database     *)
(* call.  The database driver is the environment: every call it serves may *)
(* succeed or fail.                                                        *)
(***************************************************************************)
EXTENDS Integers, Sequences, FiniteSets, TLC

\* ------------------------------------------------------------------ bounds
MaxRows == 3
MaxBatch == 2

\* ------------------------------------------------------------ cell values
Nil == [kind |-> "nil", v |-> 0]
IntV(n) == [kind |-> "int", v |-> n]
Values == {Nil, IntV(1)}

\* Column names, listed in the order sort.Strings gives them.
AllColumns == <<"a", "b">>
ColNames == {AllColumns[i] : i \in 1..Len(AllColumns)}

\* Column[any].Data of at most MaxRows cells.
DataSeqs == UNION {[1..n -> Values] : n \in 0..MaxRows}

\* DataFrame.Columns: a map from column name to its data.  AddColumn does
\* not compare lengths, so the columns of a frame may differ in length.
Frames == UNION {[S -> DataSeqs] : S \in SUBSET ColNames}

NewDataFrame == [c \in {} |-> <<>>]

\* Column.Len of every column of the frame.
ColumnLens(f) == {Len(f[c]) : c \in DOMAIN f}

\* DataFrame.Nrows returns the length of the first column the map iteration
\* yields, or 0 without columns: every column's length is a possible result.
Nrows(f) == IF DOMAIN f = {} THEN {0} ELSE ColumnLens(f)

\* DataFrame.ColumnNames: the names, sorted.
ColumnNames(f) == SelectSeq(AllColumns, LAMBDA c : c \in DOMAIN f)

\* ---------------------------------------------------------------- options
IfExistsInputs == {"", "fail", "replace", "append", "upsert"}
DialectInputs == {"", "sqlite3", "Postgres", "mysql", "oracle"}
BatchSizeInputs == (0 - 1)..MaxBatch

\* strings.ToLower on the dialect names of the model.
ToLower(s) == IF s = "Postgres" THEN "postgres" ELSE s

\* The variadic options argument: no option, or one SQLWriteOption.
SQLWriteOption == [IfExists : IfExistsInputs, Dialect : DialectInputs, BatchSize : BatchSizeInputs]
OptionInputs == {<<>>} \cup {<<o>> : o \in SQLWriteOption}

DefaultBatchSize == 1000

\* ValidIfExistsBatch without the BatchSize test.
ValidIfExistsOnly(userOpt) ==
    IF userOpt.IfExists # "" /\ userOpt.IfExists \notin {"fail", "replace", "append"}
    THEN "invalid IfExists option"
    ELSE "nil"

\* ToSQLTxContext, validation of the user's options; "nil" when valid.
ValidIfExistsBatch(userOpt) ==
    IF userOpt.IfExists # "" /\ userOpt.IfExists \notin {"fail", "replace", "append"}
    THEN "invalid IfExists option"
    ELSE IF userOpt.BatchSize # 0 /\ userOpt.BatchSize <= 0
    THEN "BatchSize must be greater than 0"
    ELSE "nil"

ValidateOptions(options) ==
    IF Len(options) > 0
    THEN LET userOpt == options[1] IN
         IF ValidIfExistsBatch(userOpt) # "nil"
         THEN ValidIfExistsBatch(userOpt)
         ELSE IF userOpt.Dialect # ""
                 /\ ToLower(userOpt.Dialect) \notin {"sqlite", "sqlite3", "postgres", "postgresql", "pq", "mysql"}
         THEN "unknown dialect"
         ELSE "nil"
    ELSE "nil"

\* BatchSizeOrDefault falling back to a batch size of 1.
BatchSizeOrOne(b) == IF b > 0 THEN b ELSE 1

\* ToSQLTxContext, the options after the defaults are applied.
BatchSizeOrDefault(b) == IF b > 0 THEN b ELSE DefaultBatchSize

ParseOptions(options) ==
    IF Len(options) > 0
    THEN LET userOpt == options[1] IN
         [IfExists |-> IF userOpt.IfExists # "" THEN userOpt.IfExists ELSE "fail",
          BatchSize |-> BatchSizeOrDefault(userOpt.BatchSize),
          Dialect |-> userOpt.Dialect,
          CreateTable |-> TRUE]
    ELSE [IfExists |-> "fail", BatchSize |-> DefaultBatchSize, Dialect |-> "", CreateTable |-> TRUE]

\* ToSQLTxContext, the dialect the write uses; "unknown" is the error branch.
SelectDialect(name) ==
    IF name # ""
    THEN CASE ToLower(name) \in {"sqlite", "sqlite3"} -> "sqlite"
           [] ToLower(name) \in {"postgres", "postgresql", "pq"} -> "postgres"
           [] ToLower(name) = "mysql" -> "mysql"
           [] OTHER -> "unknown"
    ELSE "sqlite"

\* ---------------------------------------------------------------- dialect
\* fmt.Sprintf("%d", n) for n >= 0, as a sequence of characters.
Digit(d) == <<"0", "1", "2", "3", "4", "5", "6", "7", "8", "9">>[d + 1]

RECURSIVE Itoa(_)
Itoa(n) == IF n < 10 THEN <<Digit(n)>> ELSE Itoa(n \div 10) \o <<Digit(n % 10)>>

\* SQLDialect.Placeholder of the three dialects.
Placeholder(d, index) == IF d = "postgres" THEN <<"$">> \o Itoa(index) ELSE <<"?">>

\* convertGoTypeToSQLNullable: the sql.Null* wrapper of a cell value.
convertGoTypeToSQLNullable(value) ==
    IF value = Nil
    THEN [type |-> "NullString", Valid |-> FALSE, v |-> 0]
    ELSE [type |-> "NullInt64", Valid |-> TRUE, v |-> value.v]

\* ------------------------------------------------------------ insertBatch
\* NextPlaceholderIdx counting within the row only.
NextPlaceholderIdxPerRow(placeholderIdx, j) == j + 2

\* The placeholder index after one more placeholder was generated.
NextPlaceholderIdx(placeholderIdx, j) == placeholderIdx + 1

\* insertBatch, the placeholders of one row, starting at placeholderIdx.
RECURSIVE RowPlaceholders(_, _, _, _)
RowPlaceholders(d, j, nCols, placeholderIdx) ==
    IF j >= nCols THEN <<>>
    ELSE <<Placeholder(d, placeholderIdx)>>
         \o RowPlaceholders(d, j + 1, nCols, NextPlaceholderIdx(placeholderIdx, j))

\* insertBatch, the placeholder rows of the statement; the index is carried
\* from one row to the next.
RECURSIVE PlaceholderRows(_, _, _, _, _)
PlaceholderRows(d, i, nR, nCols, placeholderIdx) ==
    IF i >= nR THEN <<>>
    ELSE <<RowPlaceholders(d, 0, nCols, placeholderIdx)>>
         \o PlaceholderRows(d, i + 1, nR, nCols, placeholderIdx + nCols)

\* insertBatch, the bound arguments of one row: one per column, in the
\* order of colNames.
RowArgs(f, colNames, rowIdx) ==
    [colIdx \in 1..Len(colNames) |-> convertGoTypeToSQLNullable(f[colNames[colIdx]][rowIdx + 1])]

\* insertBatch, the args array: the rows startIdx..endIdx-1 one after the other.
RECURSIVE BuildArgs(_, _, _, _)
BuildArgs(f, colNames, rowIdx, endIdx) ==
    IF rowIdx >= endIdx THEN <<>>
    ELSE RowArgs(f, colNames, rowIdx) \o BuildArgs(f, colNames, rowIdx + 1, endIdx)

\* insertBatch reads columns[colIdx].Data[rowIdx] for every row below endIdx:
\* a column shorter than endIdx makes the index expression panic.
ArgsPanic(f, endIdx) == \E c \in DOMAIN f : Len(f[c]) < endIdx

\* ---------------------------------------------------------- batchInsertTx
BatchEnd(start, batchSize, n) == IF start + batchSize > n THEN n ELSE start + batchSize

\* NextBatchStart advancing by one row instead of one batch.
NextBatchStartByOne(start, batchSize) == start + 1

NextBatchStart(start, batchSize) == start + batchSize

\* ------------------------------------------------------------------ state
VARIABLES
    pc,          \* position of the write: idle, begin, validate, exists, drop,
                 \* create, insert, commit, unwind, done
    entry,       \* "top" (ToSQL/ToSQLContext) or "tx" (ToSQLTx/ToSQLTxContext)
    options,     \* the options argument of the call
    df,          \* the receiver
    opts,        \* the options after defaults
    dialect,     \* the dialect in use
    exists,      \* result of the existence check
    nRows,       \* batchInsertTx.nRows
    batchStart,  \* batchInsertTx.batchStart
    tx,          \* the transaction: none, open, committed, rolledback, commitfailed
    issued,      \* the statements the current call sent to the driver, in order
    err,         \* what the call returned ("nil", an error, "panic"), "" while running
    driver,      \* fmt.Sprintf("%T", db.Driver()) of the database handle
    other,       \* the other DataFrame of a join
    key,         \* the key argument of a join or of Groupby
    gdf,         \* the GroupedDataFrame returned by Groupby
    result,      \* what the last DataFrame operation returned
    sqlRows,     \* the result set of a read: its column types and its rows
    readOptions, \* the options argument of FromSQL
    dropOptions  \* the options argument of DropDuplicates

vars == <<pc, entry, options, df, opts, dialect, exists, nRows, batchStart, tx, issued, err,
          driver, other, key, gdf, result, sqlRows, readOptions, dropOptions>>

\* What the SQL write neither reads nor writes.
auxvars == <<driver, other, key, gdf, result, sqlRows, readOptions, dropOptions>>

NoRows == [columns |-> <<>>, data |-> <<>>]

\* The driver of the database the writes go to.
SQLiteDriver == "*sqlite3.SQLiteDriver"

NoKey == [type |-> "none", names |-> <<>>]

NoGroups == [Groups |-> <<>>, Key |-> "", Err |-> ""]

NoResult == [op |-> "none", args |-> <<>>, df |-> NewDataFrame, err |-> ""]

Stmt(op, ok) == [op |-> op, ok |-> ok, found |-> FALSE, startIdx |-> 0, endIdx |-> 0, placeholderRows |-> <<>>, args |-> <<>>]

NoOpts == [IfExists |-> "", BatchSize |-> 0, Dialect |-> "", CreateTable |-> FALSE]

Init ==
    /\ pc = "idle"
    /\ entry = "none"
    /\ options = <<>>
    /\ df = NewDataFrame
    /\ opts = NoOpts
    /\ dialect = "none"
    /\ exists = FALSE
    /\ nRows = 0
    /\ batchStart = 0
    /\ tx = "none"
    /\ issued = <<>>
    /\ err = ""
    /\ driver = SQLiteDriver
    /\ other = NewDataFrame
    /\ key = NoKey
    /\ gdf = NoGroups
    /\ result = NoResult
    /\ sqlRows = NoRows
    /\ readOptions = <<>>
    /\ dropOptions = <<>>

\* Return, with ToSQLTxContext rolling the transaction back on an error.
ReturnRollingBack(e) ==
    IF e # "nil" THEN pc' = "unwind" /\ err' = e
    ELSE IF entry = "tx" THEN pc' = "done" /\ err' = e
    ELSE pc' = "commit" /\ err' = ""

\* Return, with ToSQLContext ignoring the error of ToSQLTxContext.
ReturnIgnoringError(e) ==
    IF entry = "tx" THEN pc' = "done" /\ err' = e
    ELSE pc' = "commit" /\ err' = ""

\* ToSQLTxContext returns e.  ToSQLContext then commits when e is nil and
\* otherwise returns e with its deferred tx.Rollback still to run; a panic
\* unwinds through the same deferred call.
Return(e) ==
    IF entry = "tx" THEN pc' = "done" /\ err' = e
    ELSE IF e = "nil" THEN pc' = "commit" /\ err' = ""
    ELSE pc' = "unwind" /\ err' = e

\* StartInsert without the test for an empty DataFrame.
StartInsertNoEmptyTest ==
    \E n2 \in Nrows(df) :
        /\ nRows' = n2
        /\ batchStart' = 0
        /\ IF Len(ColumnNames(df)) = 0 THEN Return("error inserting data")
           ELSE IF 0 < n2 THEN pc' = "insert" /\ err' = ""
           ELSE Return("nil")

\* ToSQLTxContext from the row-count test to the head of the batch loop of
\* batchInsertTx.  Nrows is evaluated twice, once by each function.
StartInsert ==
    \E n1 \in Nrows(df), n2 \in Nrows(df) :
        IF n1 = 0
        THEN Return("nil") /\ UNCHANGED <<nRows, batchStart>>
        ELSE /\ nRows' = n2
             /\ batchStart' = 0
             /\ IF Len(ColumnNames(df)) = 0 THEN Return("error inserting data")
                ELSE IF 0 < n2 THEN pc' = "insert" /\ err' = ""
                ELSE Return("nil")

\* ----------------------------------------------------------------- caller
\* A caller invokes ToSQL / ToSQLContext.
CallToSQL ==
    /\ pc = "idle"
    /\ tx # "open"
    /\ \E o \in OptionInputs, f \in Frames :
        /\ options' = o
        /\ df' = f
    /\ pc' = "begin"
    /\ entry' = "top"
    /\ opts' = NoOpts
    /\ dialect' = "none"
    /\ exists' = FALSE
    /\ nRows' = 0
    /\ batchStart' = 0
    /\ tx' = "none"
    /\ issued' = <<>>
    /\ err' = ""
    /\ UNCHANGED auxvars

\* A caller opens its own transaction (db.Begin).
CallerBegin ==
    /\ pc = "idle"
    /\ tx # "open"
    /\ tx' = "open"
    /\ pc' = "idle"
    /\ entry' = "none"
    /\ options' = <<>>
    /\ df' = NewDataFrame
    /\ opts' = NoOpts
    /\ dialect' = "none"
    /\ exists' = FALSE
    /\ nRows' = 0
    /\ batchStart' = 0
    /\ issued' = <<>>
    /\ err' = ""
    /\ UNCHANGED auxvars

\* A caller invokes ToSQLTx / ToSQLTxContext on its open transaction.
CallToSQLTx ==
    /\ pc = "idle"
    /\ tx = "open"
    /\ \E o \in OptionInputs, f \in Frames :
        /\ options' = o
        /\ df' = f
    /\ pc' = "validate"
    /\ entry' = "tx"
    /\ opts' = NoOpts
    /\ dialect' = "none"
    /\ exists' = FALSE
    /\ nRows' = 0
    /\ batchStart' = 0
    /\ issued' = <<>>
    /\ err' = ""
    /\ UNCHANGED tx
    /\ UNCHANGED auxvars

\* The caller commits its transaction.
CallerCommit ==
    /\ pc \in {"idle", "done"}
    /\ tx = "open"
    /\ tx' = "committed"
    /\ UNCHANGED <<pc, entry, options, df, opts, dialect, exists, nRows, batchStart, issued, err>>
    /\ UNCHANGED auxvars

\* The caller rolls its transaction back.
CallerRollback ==
    /\ pc \in {"idle", "done"}
    /\ tx = "open"
    /\ tx' = "rolledback"
    /\ UNCHANGED <<pc, entry, options, df, opts, dialect, exists, nRows, batchStart, issued, err>>
    /\ UNCHANGED auxvars

\* The call has returned and the caller has looked at its result.
ReturnToCaller ==
    /\ pc = "done"
    /\ pc' = "idle"
    /\ tx' = IF tx = "open" THEN "open" ELSE "none"
    /\ entry' = "none"
    /\ options' = <<>>
    /\ df' = NewDataFrame
    /\ opts' = NoOpts
    /\ dialect' = "none"
    /\ exists' = FALSE
    /\ nRows' = 0
    /\ batchStart' = 0
    /\ issued' = <<>>
    /\ err' = ""
    /\ UNCHANGED auxvars

\* ------------------------------------------------------------ ToSQLContext
\* db.BeginTx.
BeginTx ==
    /\ pc = "begin"
    /\ \E ok \in BOOLEAN :
        /\ issued' = Append(issued, Stmt("BEGIN", ok))
        /\ IF ok
           THEN tx' = "open" /\ pc' = "validate" /\ err' = ""
           ELSE tx' = "none" /\ pc' = "done" /\ err' = "error beginning transaction"
    /\ UNCHANGED <<entry, options, df, opts, dialect, exists, nRows, batchStart>>
    /\ UNCHANGED auxvars

\* tx.Commit, after ToSQLTxContext returned nil.  The deferred tx.Rollback
\* then finds the transaction finished and sends nothing.
Commit ==
    /\ pc = "commit"
    /\ \E ok \in BOOLEAN :
        /\ issued' = Append(issued, Stmt("COMMIT", ok))
        /\ tx' = IF ok THEN "committed" ELSE "commitfailed"
        /\ err' = IF ok THEN "nil" ELSE "error committing transaction"
    /\ pc' = "done"
    /\ UNCHANGED <<entry, options, df, opts, dialect, exists, nRows, batchStart>>
    /\ UNCHANGED auxvars

\* The deferred tx.Rollback, after ToSQLTxContext returned an error or panicked.
DeferredRollback ==
    /\ pc = "unwind"
    /\ issued' = Append(issued, Stmt("ROLLBACK", TRUE))
    /\ tx' = "rolledback"
    /\ pc' = "done"
    /\ UNCHANGED <<entry, options, df, opts, dialect, exists, nRows, batchStart, err>>
    /\ UNCHANGED auxvars

\* ---------------------------------------------------------- ToSQLTxContext
\* Validation of the options, the defaults and the choice of the dialect.
Validate ==
    /\ pc = "validate"
    /\ IF ValidateOptions(options) # "nil"
       THEN Return(ValidateOptions(options)) /\ UNCHANGED <<opts, dialect>>
       ELSE /\ opts' = ParseOptions(options)
            /\ dialect' = SelectDialect(ParseOptions(options).Dialect)
            /\ IF SelectDialect(ParseOptions(options).Dialect) = "unknown"
               THEN Return("unknown dialect")
               ELSE pc' = "exists" /\ err' = ""
    /\ UNCHANGED <<entry, options, df, exists, nRows, batchStart, tx, issued>>
    /\ UNCHANGED auxvars

\* IfExistsBranch without the "fail" case.
IfExistsBranchNoFail(found, policy) ==
    IF found /\ policy = "replace" THEN "drop"
    ELSE IF found THEN "insert"
    ELSE "create"

\* IfExistsBranch creating the table under "append" although it exists.
IfExistsBranchAppendCreates(found, policy) ==
    IF found /\ policy = "fail" THEN "fail"
    ELSE IF found /\ policy = "replace" THEN "drop"
    ELSE "create"

\* What follows the existence check when it found the table (found) or not.
IfExistsBranch(found, policy) ==
    IF found /\ policy = "fail" THEN "fail"
    ELSE IF found /\ policy = "replace" THEN "drop"
    ELSE IF found THEN "insert"
    ELSE "create"

\* tableExistsTx and the IfExists switch.
TableExists ==
    /\ pc = "exists"
    /\ \E r \in {"found", "norows", "error"} :
        /\ issued' = Append(issued, [Stmt("EXISTS", r # "error") EXCEPT !.found = (r = "found")])
        /\ IF r = "error"
           THEN Return("error checking if table exists") /\ UNCHANGED <<exists, nRows, batchStart>>
           ELSE LET branch == IfExistsBranch(r = "found", opts.IfExists) IN
                /\ exists' = (r = "found")
                /\ CASE branch = "fail" ->
                          Return("table already exists") /\ UNCHANGED <<nRows, batchStart>>
                     [] branch = "drop" ->
                          pc' = "drop" /\ err' = "" /\ UNCHANGED <<nRows, batchStart>>
                     [] branch = "create" /\ opts.CreateTable ->
                          pc' = "create" /\ err' = "" /\ UNCHANGED <<nRows, batchStart>>
                     [] OTHER -> StartInsert
    /\ UNCHANGED <<entry, options, df, opts, dialect, tx>>
    /\ UNCHANGED auxvars

\* exists after a successful DROP, when its stale value is kept.
ExistsAfterDropStale == TRUE

\* exists after a successful DROP: the table no longer exists.
ExistsAfterDrop == FALSE

\* DROP TABLE under "replace".
DropTable ==
    /\ pc = "drop"
    /\ \E ok \in BOOLEAN :
        /\ issued' = Append(issued, Stmt("DROP", ok))
        /\ IF ok
           THEN /\ exists' = ExistsAfterDrop
                /\ IF ~ExistsAfterDrop /\ opts.CreateTable
                   THEN pc' = "create" /\ err' = "" /\ UNCHANGED <<nRows, batchStart>>
                   ELSE StartInsert
           ELSE Return("error dropping table") /\ UNCHANGED <<exists, nRows, batchStart>>
    /\ UNCHANGED <<entry, options, df, opts, dialect, tx>>
    /\ UNCHANGED auxvars

\* createTableTx.
CreateTable ==
    /\ pc = "create"
    /\ \E ok \in BOOLEAN :
        /\ issued' = Append(issued, Stmt("CREATE", ok))
        /\ IF ok
           THEN StartInsert
           ELSE Return("error creating table") /\ UNCHANGED <<nRows, batchStart>>
    /\ UNCHANGED <<entry, options, df, opts, dialect, exists, tx>>
    /\ UNCHANGED auxvars

\* The INSERT statement insertBatch builds for rows startIdx..endIdx-1.
InsertStmt(f, d, startIdx, endIdx, ok) ==
    [op |-> "INSERT", ok |-> ok, found |-> FALSE, startIdx |-> startIdx, endIdx |-> endIdx,
     placeholderRows |-> PlaceholderRows(d, 0, endIdx - startIdx, Len(ColumnNames(f)), 1),
     args |-> BuildArgs(f, ColumnNames(f), startIdx, endIdx)]

\* One iteration of the batch loop of batchInsertTx: insertBatch.
InsertBatch ==
    /\ pc = "insert"
    /\ LET batchEnd == BatchEnd(batchStart, opts.BatchSize, nRows) IN
       IF ArgsPanic(df, batchEnd)
       THEN Return("panic") /\ UNCHANGED <<issued, batchStart>>
       ELSE \E ok \in BOOLEAN :
            /\ issued' = Append(issued, InsertStmt(df, dialect, batchStart, batchEnd, ok))
            /\ IF ok
               THEN /\ batchStart' = NextBatchStart(batchStart, opts.BatchSize)
                    /\ IF NextBatchStart(batchStart, opts.BatchSize) < nRows
                       THEN pc' = "insert" /\ err' = ""
                       ELSE Return("nil")
               ELSE Return("error inserting data") /\ UNCHANGED batchStart
    /\ UNCHANGED <<entry, options, df, opts, dialect, exists, nRows, tx>>
    /\ UNCHANGED auxvars

Next ==
    \/ CallToSQL
    \/ CallerBegin
    \/ CallToSQLTx
    \/ CallerCommit
    \/ CallerRollback
    \/ ReturnToCaller
    \/ BeginTx
    \/ Validate
    \/ TableExists
    \/ DropTable
    \/ CreateTable
    \/ InsertBatch
    \/ Commit
    \/ DeferredRollback

Spec == Init /\ [][Next]_vars

TypeOK ==
    /\ pc \in {"idle", "begin", "validate", "exists", "drop", "create", "insert", "commit", "unwind", "done"}
    /\ tx \in {"none", "open", "committed", "rolledback", "commitfailed"}
    /\ df \in Frames
    /\ batchStart >= 0

\* -------------------------------------------------------------- properties
\* The positions of the statements of kind op in the current call.
Issued(op) == {i \in 1..Len(issued) : issued[i].op = op}

\* The statements of the write proper: what a top-level write brackets
\* between BEGIN and COMMIT or ROLLBACK.
Steps == Issued("EXISTS") \cup Issued("DROP") \cup Issued("CREATE") \cup Issued("INSERT")

\* A frame whose columns all have the same length, and that length.
Uniform(f) == Cardinality(Nrows(f)) = 1
RowCount(f) == CHOOSE n \in Nrows(f) : TRUE

\* The rows carried by the INSERT statements that succeeded.
InsertedRows == UNION {issued[i].startIdx .. (issued[i].endIdx - 1) : i \in {j \in Issued("INSERT") : issued[j].ok}}

\* The existence check ran, found the table and the policy "fail" rejected it.
Rejected == Issued("EXISTS") # {} /\ exists /\ opts.IfExists = "fail"

\* C1: a top-level write is all-or-nothing.  (a) In every state, a statement
\* that failed is the last one the write issued, except that a failed step
\* of the write is followed by the ROLLBACK and by nothing else.  (b) When the
\* call has returned: COMMIT was issued only if the existence check passed
\* (the query succeeded and the table was not rejected under "fail") and no
\* DROP, CREATE or INSERT failed, and then no ROLLBACK was issued; for a
\* well-formed store the converse holds too, and a committed transaction
\* carries every row of the store; a failed step means ROLLBACK was issued,
\* the transaction is rolled back, never committed, and an error is returned.
C1_AllOrNothing ==
    entry = "top" =>
        /\ \A i \in 1..Len(issued) :
              ~issued[i].ok =>
                  \/ i = Len(issued)
                  \/ i \in Steps /\ i + 1 = Len(issued) /\ issued[i + 1].op = "ROLLBACK"
        /\ pc = "done" =>
              LET stepFailed == \E i \in Steps : ~issued[i].ok
                  passed == Issued("EXISTS") # {} /\ ~stepFailed /\ ~Rejected
              IN  /\ Issued("COMMIT") # {} => passed /\ Issued("ROLLBACK") = {}
                  /\ Uniform(df) /\ passed => Issued("COMMIT") # {}
                  /\ tx = "committed" =>
                        /\ Issued("COMMIT") # {}
                        /\ err = "nil"
                        /\ Uniform(df) => InsertedRows = 0 .. (RowCount(df) - 1)
                  /\ stepFailed =>
                        /\ Issued("ROLLBACK") # {}
                        /\ Issued("COMMIT") = {}
                        /\ tx = "rolledback"
                        /\ err \notin {"nil", "", "panic"}

\* C1 witness: the second batch INSERT failed after the first succeeded, and
\* the top-level write has returned with the transaction rolled back.
C1_Witness ==
    /\ entry = "top"
    /\ pc = "done"
    /\ tx = "rolledback"
    /\ \E i, j \in Issued("INSERT") : i < j /\ issued[i].ok /\ ~issued[j].ok

\* The existence check of the current call found the table.
Found == \E i \in Issued("EXISTS") : issued[i].found

\* The ifExists policy the caller asked for, "fail" when it named none.
Policy == IF options = <<>> THEN "fail" ELSE IF options[1].IfExists = "" THEN "fail" ELSE options[1].IfExists

\* C2: when the table exists and the policy is "fail", given or by default,
\* the write returns the error "table already exists" and issues no DROP
\* TABLE, no CREATE TABLE and no INSERT; the top-level entry point never
\* commits and has rolled the transaction back when it returns.
C2_FailLeavesTable ==
    (Found /\ Policy = "fail") =>
        /\ Issued("DROP") = {} /\ Issued("CREATE") = {} /\ Issued("INSERT") = {}
        /\ pc \in {"unwind", "done"}
        /\ err = "table already exists"
        /\ entry = "tx" => pc = "done"
        /\ entry = "top" =>
              /\ Issued("COMMIT") = {}
              /\ pc = "done" => tx = "rolledback" /\ issued[Len(issued)].op = "ROLLBACK"

\* C2 witness: a top-level write without options found the table and has
\* returned, rolled back.
C2_Witness ==
    /\ entry = "top"
    /\ pc = "done"
    /\ options = <<>>
    /\ Found
    /\ tx = "rolledback"

\* C3: when the table exists and the policy is "replace", the statements are
\* issued in the order existence query, DROP TABLE, CREATE TABLE, the batch
\* INSERTs, COMMIT: DROP directly follows the existence query, CREATE
\* directly follows a DROP that succeeded, every INSERT comes after a CREATE
\* that succeeded, and a write that succeeded issued the DROP and the CREATE.
C3_ReplaceOrder ==
    (Found /\ Policy = "replace") =>
        LET rank(i) == CASE issued[i].op = "BEGIN" -> 0
                         [] issued[i].op = "EXISTS" -> 1
                         [] issued[i].op = "DROP" -> 2
                         [] issued[i].op = "CREATE" -> 3
                         [] issued[i].op = "INSERT" -> 4
                         [] OTHER -> 5
        IN  /\ \A i, j \in 1..Len(issued) :
                  i < j => rank(i) < rank(j) \/ (issued[i].op = "INSERT" /\ issued[j].op = "INSERT")
            /\ \A d \in Issued("DROP") : issued[d - 1].op = "EXISTS"
            /\ \A c \in Issued("CREATE") : issued[c - 1].op = "DROP" /\ issued[c - 1].ok
            /\ \A k \in Issued("INSERT") : \E c \in Issued("CREATE") : c < k /\ issued[c].ok
            /\ \A k \in Issued("COMMIT") : \E c \in Issued("CREATE") : c < k /\ issued[c].ok
            /\ pc = "drop" <=> Issued("DROP") = {}
            /\ (pc = "done" /\ err = "nil") => Issued("DROP") # {} /\ Issued("CREATE") # {}

\* C3 witness: a top-level "replace" of an existing table committed after
\* two batch INSERTs.
C3_Witness ==
    /\ entry = "top"
    /\ pc = "done"
    /\ tx = "committed"
    /\ Found
    /\ Policy = "replace"
    /\ Cardinality(Issued("INSERT")) >= 2

\* C4: under "append" no DROP TABLE is issued; when the table exists no
\* CREATE TABLE is issued either and every statement after the existence
\* query is an INSERT (or the closing COMMIT or ROLLBACK); when the table
\* does not exist, the statement after the existence query is the CREATE
\* TABLE and every INSERT follows a CREATE that succeeded.
C4_Append ==
    Policy = "append" =>
        /\ Issued("DROP") = {}
        /\ pc # "drop"
        /\ Found =>
              /\ Issued("CREATE") = {}
              /\ pc # "create"
              /\ \A e \in Issued("EXISTS") : \A i \in (e + 1)..Len(issued) :
                    issued[i].op \in {"INSERT", "COMMIT", "ROLLBACK"}
        /\ \A e \in Issued("EXISTS") :
              (issued[e].ok /\ ~issued[e].found) =>
                  /\ IF e = Len(issued) THEN pc = "create" ELSE issued[e + 1].op = "CREATE"
                  /\ \A k \in Issued("INSERT") : issued[e + 1].op = "CREATE" /\ issued[e + 1].ok

\* C4 witness: an "append" through ToSQLTx onto an existing table returned
\* nil after an INSERT.
C4_Witness ==
    /\ entry = "tx"
    /\ pc = "done"
    /\ err = "nil"
    /\ Found
    /\ Policy = "append"
    /\ Issued("INSERT") # {}

\* C5: for a store of N > 0 rows and the effective batch size B, the INSERT
\* statements are issued one directly after the other, the k-th (from 0)
\* carries the rows k*B up to, not including, min((k+1)*B, N), and a write
\* that succeeded issued exactly ceil(N / B) of them, all successful.
C5_Batches ==
    (Uniform(df) /\ RowCount(df) > 0) =>
        LET N == RowCount(df)
            B == opts.BatchSize
            ins == Issued("INSERT")
        IN  /\ \A i \in ins :
                  LET k == Cardinality({j \in ins : j < i}) IN
                  /\ issued[i].startIdx = k * B
                  /\ issued[i].endIdx = IF (k + 1) * B < N THEN (k + 1) * B ELSE N
                  /\ k > 0 => (i - 1) \in ins
            /\ (pc = "done" /\ err = "nil") =>
                  /\ Cardinality(ins) = (N + B - 1) \div B
                  /\ \A i \in ins : issued[i].ok
                  /\ B = 1 => Cardinality(ins) = N
                  /\ B >= N => Cardinality(ins) = 1

\* C5 witness: three rows written in batches of two: a full batch and a
\* batch of the one remaining row.
C5_Witness ==
    /\ pc = "done"
    /\ err = "nil"
    /\ Uniform(df)
    /\ RowCount(df) = 3
    /\ opts.BatchSize = 2
    /\ Cardinality(Issued("INSERT")) = 2

\* The errors the validation of the options returns.
ValidationErrors == {"invalid IfExists option", "BatchSize must be greater than 0", "unknown dialect"}

\* C6: a write whose options carry an ifExists value other than "fail",
\* "replace" or "append", a negative batchSize or a dialect name that is not
\* known never issues an existence query, a DROP, a CREATE or an INSERT, and
\* what it returns is a validation error.
C6_ValidateFirst ==
    (/\ options # <<>>
     /\ \/ options[1].IfExists \notin {"", "fail", "replace", "append"}
        \/ options[1].BatchSize < 0
        \/ options[1].Dialect \notin {"", "sqlite3", "Postgres", "mysql"}) =>
        /\ Steps = {}
        /\ pc \notin {"exists", "drop", "create", "insert", "commit"}
        /\ pc \in {"unwind", "done"} => err \in ValidationErrors \cup {"error beginning transaction"}
        /\ (pc \in {"unwind", "done"} /\ entry = "tx") => err \in ValidationErrors

\* C6 witness: a top-level write with batchSize -1 returned the validation
\* error having issued only BEGIN and ROLLBACK.
C6_Witness ==
    /\ entry = "top"
    /\ pc = "done"
    /\ options # <<>>
    /\ options[1].BatchSize < 0
    /\ options[1].IfExists = "replace"
    /\ err = "BatchSize must be greater than 0"
    /\ Len(issued) = 2

\* C7: no step of ToSQLTx / ToSQLTxContext changes the state of the
\* caller's transaction or issues BEGIN, COMMIT or ROLLBACK: while the call
\* runs and when it returns, with nil or with an error, the transaction is
\* open.
C7_TxUntouched ==
    [][(entry = "tx" /\ pc \notin {"idle", "done"}) =>
          /\ tx = "open"
          /\ tx' = tx
          /\ \A i \in 1..Len(issued') : issued'[i].op \notin {"BEGIN", "COMMIT", "ROLLBACK"}]_vars

\* C7 witness: ToSQLTx returned the error of a failed INSERT and the
\* caller's transaction is open.
C7_Witness ==
    /\ entry = "tx"
    /\ pc = "done"
    /\ err = "error inserting data"
    /\ tx = "open"
    /\ Issued("INSERT") # {}

\* C8: writing a store with zero rows never issues an INSERT; once the
\* existence check passed (the query succeeded and the table was not
\* rejected under "fail") and neither DROP nor CREATE failed, the write
\* returns nil (ToSQLTx) or issues COMMIT (ToSQL), and CREATE TABLE was
\* issued exactly when the table was absent or was dropped.
C8_ZeroRows ==
    (Uniform(df) /\ RowCount(df) = 0 /\ pc = "done" /\ entry \in {"top", "tx"}) =>
        /\ Issued("INSERT") = {}
        /\ (Issued("EXISTS") # {} /\ ~Rejected /\ \A i \in Steps : issued[i].ok) =>
              /\ entry = "tx" => err = "nil"
              /\ entry = "top" => Issued("COMMIT") # {} /\ err \in {"nil", "error committing transaction"}
              /\ Issued("CREATE") # {} <=> (~Found \/ Issued("DROP") # {})

\* C8 witness: a top-level write of a store without columns created the
\* table and committed.
C8_Witness ==
    /\ entry = "top"
    /\ pc = "done"
    /\ DOMAIN df = {}
    /\ tx = "committed"
    /\ issued[Len(issued) - 1].op = "CREATE"

\* C9 as claimed: options that set batchSize to a negative value or to zero
\* fail with a validation error and nothing is issued.
C9_Original ==
    (options # <<>> /\ options[1].BatchSize <= 0) =>
        /\ Steps = {}
        /\ pc \notin {"exists", "drop", "create", "insert", "commit"}
        /\ pc \in {"unwind", "done"} => err \in ValidationErrors \cup {"error beginning transaction"}

\* C9 amended: the batch size is 1000 when the caller gives no options or
\* leaves batchSize at zero, and the caller's value when that is positive;
\* options with a negative batchSize fail with a validation error and the
\* write issues nothing.
C9_BatchSize ==
    /\ (options # <<>> /\ options[1].BatchSize < 0) =>
          /\ Steps = {}
          /\ pc \notin {"exists", "drop", "create", "insert", "commit"}
          /\ pc \in {"unwind", "done"} => err \in ValidationErrors \cup {"error beginning transaction"}
    /\ (pc \in {"exists", "drop", "create", "insert", "commit"} \/ Steps # {}) =>
          opts.BatchSize = IF options = <<>> THEN 1000
                           ELSE IF options[1].BatchSize = 0 THEN 1000
                           ELSE options[1].BatchSize

\* C9 witness: options with batchSize zero; the write went on with a batch
\* size of 1000 and inserted its three rows in one statement.
C9_Witness ==
    /\ pc = "done"
    /\ err = "nil"
    /\ options # <<>>
    /\ options[1].BatchSize = 0
    /\ opts.BatchSize = 1000
    /\ \E i \in Issued("INSERT") : issued[i].startIdx = 0 /\ issued[i].endIdx = 3

\* C10: in every INSERT each placeholder row has one placeholder per column,
\* the number of placeholders and the number of bound arguments both equal
\* (rows in the batch) x (columns), the k-th argument is the wrapped cell of
\* row startIdx + (k-1) div columns and of the ((k-1) mod columns)-th name
\* of the sorted column list, and the k-th placeholder is $k for Postgres,
\* numbered from 1 in every statement, and ? for the other dialects.
C10_Placeholders ==
    \A i \in Issued("INSERT") :
        LET st == issued[i]
            colNames == ColumnNames(df)
            nCols == Len(colNames)
            n == (st.endIdx - st.startIdx) * nCols
        IN  /\ nCols > 0
            /\ st.endIdx > st.startIdx
            /\ Len(st.placeholderRows) = st.endIdx - st.startIdx
            /\ \A r \in 1..Len(st.placeholderRows) : Len(st.placeholderRows[r]) = nCols
            /\ Len(st.args) = n
            /\ \A k \in 1..n :
                  LET r == (k - 1) \div nCols
                      c == (k - 1) % nCols
                      cell == df[colNames[c + 1]][st.startIdx + r + 1]
                  IN  /\ st.args[k].Valid = (cell # Nil)
                      /\ st.args[k].Valid => st.args[k].v = cell.v
                      /\ st.placeholderRows[r + 1][c + 1] =
                            IF dialect = "postgres" THEN <<"$">> \o Itoa(k) ELSE <<"?">>

\* C10 witness: a Postgres write of a two-column store whose second batch
\* holds the row after a first batch of two rows.
C10_Witness ==
    /\ dialect = "postgres"
    /\ Len(ColumnNames(df)) = 2
    /\ \E i, j \in Issued("INSERT") :
          /\ issued[i].endIdx - issued[i].startIdx = 2
          /\ issued[j].startIdx = 2
          /\ issued[j].placeholderRows[1][2] = <<"$", "2">>
          /\ issued[i].placeholderRows[2][1] = <<"$", "3">>

\* ------------------------------------------------------- dialect detection
\* fmt.Sprintf("%T", db.Driver()) for the sqlite3, pq, mysql and pgx drivers.
DriverInputs == {SQLiteDriver, "*pq.Driver", "*mysql.MySQLDriver", "*stdlib.Driver"}

\* strings.ToLower of a driver type name.
DriverLower(d) ==
    CASE d = "*sqlite3.SQLiteDriver" -> "*sqlite3.sqlitedriver"
      [] d = "*pq.Driver" -> "*pq.driver"
      [] d = "*mysql.MySQLDriver" -> "*mysql.mysqldriver"
      [] OTHER -> "*stdlib.driver"

\* strings.Contains on the lowered driver type names.
Contains(s, substr) ==
    <<s, substr>> \in {<<"*sqlite3.sqlitedriver", "sqlite">>, <<"*pq.driver", "pq">>,
                       <<"*mysql.mysqldriver", "mysql">>}

\* detectDialect: the dialect inferred from the driver, and whether the
\* inference failed (SQLite is then the fallback).
detectDialect(d) ==
    LET driverLower == DriverLower(d) IN
    IF Contains(driverLower, "sqlite") THEN [dialect |-> "sqlite", failed |-> FALSE]
    ELSE IF Contains(driverLower, "postgres") \/ Contains(driverLower, "pq")
         THEN [dialect |-> "postgres", failed |-> FALSE]
    ELSE IF Contains(driverLower, "mysql") THEN [dialect |-> "mysql", failed |-> FALSE]
    ELSE [dialect |-> "sqlite", failed |-> TRUE]

\* The writes of a program whose database handle has any of the drivers.
InitDriver ==
    /\ pc = "idle"
    /\ entry = "none"
    /\ options = <<>>
    /\ df = NewDataFrame
    /\ opts = NoOpts
    /\ dialect = "none"
    /\ exists = FALSE
    /\ nRows = 0
    /\ batchStart = 0
    /\ tx = "none"
    /\ issued = <<>>
    /\ err = ""
    /\ driver \in DriverInputs
    /\ other = NewDataFrame
    /\ key = NoKey
    /\ gdf = NoGroups
    /\ result = NoResult
    /\ sqlRows = NoRows
    /\ readOptions = <<>>
    /\ dropOptions = <<>>

SpecDriver == InitDriver /\ [][Next]_vars

\* C11: once a write has chosen its dialect, an empty dialect name gives the
\* dialect inferred from the driver (SQLite only when the inference fails),
\* and a dialect name that was given gives the dialect of that name.
C11_Original ==
    dialect \notin {"none", "unknown"} =>
        IF ParseOptions(options).Dialect = ""
        THEN dialect = detectDialect(driver).dialect
        ELSE dialect = SelectDialect(ParseOptions(options).Dialect)

\* --------------------------------------------------- DataFrame operations
\* The row argument of AppendRow: a map from column names to values.
Rows == UNION {[S -> Values] : S \in SUBSET ColNames}

\* DataFrame.AddColumn: only the name is tested, never the length.
AddColumn(f, name, data) ==
    IF name \in DOMAIN f
    THEN [df |-> f, err |-> "Column already exists"]
    ELSE [df |-> [c \in DOMAIN f \cup {name} |-> IF c = name THEN data ELSE f[c]], err |-> "nil"]

\* DataFrame.AppendRow(result, row): the columns the row names and result
\* lacks are added empty, then every column the row lacks gets a nil, then
\* the values of the row are appended.
AppendRow(res, row) ==
    LET added == [c \in DOMAIN res \cup DOMAIN row |-> IF c \in DOMAIN res THEN res[c] ELSE <<>>]
        padded == [c \in DOMAIN added |-> IF c \in DOMAIN row THEN added[c] ELSE Append(added[c], Nil)]
    IN  [c \in DOMAIN padded |-> IF c \in DOMAIN row THEN Append(padded[c], row[c]) ELSE padded[c]]

\* append(col.Data[:i], col.Data[i+1:]...)
RemoveAt(data, i) == SubSeq(data, 1, i) \o SubSeq(data, i + 2, Len(data))

\* DataFrame.DropRow past its bounds test: the slice expressions panic on a
\* column of at most i cells, after the columns the map iteration yielded
\* earlier have lost their row.
DropRow(f, i) ==
    LET short == {c \in DOMAIN f : Len(f[c]) <= i} IN
    IF short = {}
    THEN {[df |-> [c \in DOMAIN f |-> RemoveAt(f[c], i)], err |-> "nil"]}
    ELSE {[df |-> [c \in DOMAIN f |-> IF c \in S THEN RemoveAt(f[c], i) ELSE f[c]], err |-> "panic"] :
            S \in SUBSET (DOMAIN f \ short)}

\* DataFrame.DropColumn.
DropColumn(f, name) ==
    IF name \notin DOMAIN f
    THEN [df |-> f, err |-> "column does not exist"]
    ELSE [df |-> [c \in DOMAIN f \ {name} |-> f[c]], err |-> "nil"]

\* DataFrame.RenameColumn.
RenameColumn(f, oldName, newName) ==
    IF oldName \notin DOMAIN f THEN [df |-> f, err |-> "column does not exist"]
    ELSE IF newName \in DOMAIN f THEN [df |-> f, err |-> "column already exists"]
    ELSE [df |-> [c \in (DOMAIN f \ {oldName}) \cup {newName} |-> IF c = newName THEN f[oldName] ELSE f[c]],
          err |-> "nil"]

\* The SQL write and the driver stay as they are at start.
writevars == <<pc, entry, options, opts, dialect, exists, nRows, batchStart, tx, issued, err, driver,
               sqlRows, readOptions, dropOptions>>

WriteIdle ==
    /\ pc = "idle"
    /\ entry = "none"
    /\ options = <<>>
    /\ opts = NoOpts
    /\ dialect = "none"
    /\ exists = FALSE
    /\ nRows = 0
    /\ batchStart = 0
    /\ tx = "none"
    /\ issued = <<>>
    /\ err = ""
    /\ driver = SQLiteDriver

\* A program that builds one store with the public operations.
InitStore ==
    /\ WriteIdle
    /\ df = NewDataFrame
    /\ other = NewDataFrame
    /\ key = NoKey
    /\ gdf = NoGroups
    /\ result = NoResult
    /\ sqlRows = NoRows
    /\ readOptions = <<>>
    /\ dropOptions = <<>>

\* The operation returned r; a panic ends the program.
Returned(op, r) ==
    /\ df' = r.df
    /\ result' = [op |-> op, args |-> <<>>, df |-> NewDataFrame, err |-> r.err]
    /\ UNCHANGED <<writevars, other, key, gdf>>

CallAddColumn ==
    /\ result.err # "panic"
    /\ \E name \in ColNames, data \in DataSeqs : Returned("AddColumn", AddColumn(df, name, data))

CallAppendRow ==
    /\ result.err # "panic"
    /\ \A c \in DOMAIN df : Len(df[c]) < MaxRows
    /\ \E row \in Rows : Returned("AppendRow", [df |-> AppendRow(df, row), err |-> "nil"])

CallDropRow ==
    /\ result.err # "panic"
    /\ \E n \in Nrows(df), i \in (0 - 1)..MaxRows :
        IF i < 0 \/ i >= n
        THEN Returned("DropRow", [df |-> df, err |-> "index out of bounds"])
        ELSE \E r \in DropRow(df, i) : Returned("DropRow", r)

CallDropColumn ==
    /\ result.err # "panic"
    /\ \E name \in ColNames : Returned("DropColumn", DropColumn(df, name))

CallRenameColumn ==
    /\ result.err # "panic"
    /\ \E oldName \in ColNames, newName \in ColNames :
        Returned("RenameColumn", RenameColumn(df, oldName, newName))

NextStore ==
    \/ CallAddColumn
    \/ CallAppendRow
    \/ CallDropRow
    \/ CallDropColumn
    \/ CallRenameColumn

SpecStore == InitStore /\ [][NextStore]_vars

TypeOKStore == df \in Frames /\ result.op \in {"none", "AddColumn", "AppendRow", "DropRow", "DropColumn", "RenameColumn"}

\* All columns of the frame have one length.
EqualLengths(f) == Cardinality(ColumnLens(f)) <= 1

\* C12: after any sequence of AddColumn, AppendRow, DropRow, DropColumn and
\* RenameColumn calls that returned, every column of the store has the same
\* length.
C12_Original == result.err # "panic" => EqualLengths(df)

\* C13: an AppendRow on a store whose columns are equally long leaves them
\* equally long, gives the columns the row lacks a nil and the columns the
\* row names its values, a column the row introduces included.
C13_Original ==
    [][(result'.op = "AppendRow" /\ df' # df /\ EqualLengths(df)) =>
          /\ EqualLengths(df')
          /\ \A c \in DOMAIN df : c \in DOMAIN df' /\ Len(df'[c]) = Len(df[c]) + 1]_vars

\* ------------------------------------------------------------------ joins
MaxJoinRows == 2

\* The stores the joins are applied to: every column has the same length,
\* at most MaxJoinRows.
JoinFrames == UNION {[S -> [1..n -> Values]] : S \in SUBSET ColNames, n \in 0..MaxJoinRows}

\* DataFrame.Row(index) of a store with equally long columns, index from 0.
Row(f, index) == [c \in DOMAIN f |-> f[c][index + 1]]

checkExists(f, o, k) ==
    IF k \notin DOMAIN f THEN "key column does not exist in the first DataFrame"
    ELSE IF k \notin DOMAIN o THEN "key column does not exist in the second DataFrame"
    ELSE "nil"

\* appendCols: the result gets an empty column for every name of df and other.
appendCols(f, o) == [c \in DOMAIN f \cup DOMAIN o |-> <<>>]

\* mergeRows with the entries of rowB replacing those of rowA.
mergeRowsRightWins(rowA, rowB) ==
    [c \in DOMAIN rowA \cup DOMAIN rowB |-> IF c \in DOMAIN rowB THEN rowB[c] ELSE rowA[c]]

\* mergeRows: a copy of rowA plus the entries of rowB under names rowA lacks.
mergeRows(rowA, rowB) ==
    [c \in DOMAIN rowA \cup DOMAIN rowB |-> IF c \in DOMAIN rowA THEN rowA[c] ELSE rowB[c]]

\* The key test matching every pair of rows.
KeysEqualAlways(a, b) == TRUE

\* rowA[key] == rowB[key], and reflect.DeepEqual on the same two values.
KeysEqual(a, b) == a = b

\* EmitUnmatched never emitting the unmatched row.
EmitUnmatchedNever(res, row, matched) == res

\* if !matched { df.AppendRow(result, row) }
EmitUnmatched(res, row, matched) == IF matched THEN res ELSE AppendRow(res, row)

RECURSIVE InnerLoop(_, _, _, _, _, _)
\* The nested loops of InnerJoin, at left row i and right row j.
InnerLoop(f, o, k, i, j, res) ==
    IF i >= RowCount(f) THEN res
    ELSE IF j >= RowCount(o) THEN InnerLoop(f, o, k, i + 1, 0, res)
    ELSE LET rowA == Row(f, i)
             rowB == Row(o, j)
         IN  InnerLoop(f, o, k, i, j + 1,
                       IF KeysEqual(rowA[k], rowB[k]) THEN AppendRow(res, mergeRows(rowA, rowB)) ELSE res)

InnerJoin(f, o, k) ==
    IF checkExists(f, o, k) # "nil"
    THEN [df |-> NewDataFrame, err |-> checkExists(f, o, k)]
    ELSE [df |-> InnerLoop(f, o, k, 0, 0, appendCols(f, o)), err |-> "nil"]

RECURSIVE LeftLoop(_, _, _, _, _, _, _)
\* The nested loops of LeftJoin.
LeftLoop(f, o, k, i, j, matched, res) ==
    IF i >= RowCount(f) THEN res
    ELSE IF j >= RowCount(o)
         THEN LeftLoop(f, o, k, i + 1, 0, FALSE, EmitUnmatched(res, Row(f, i), matched))
    ELSE LET rowA == Row(f, i)
             rowB == Row(o, j)
             eq == KeysEqual(rowA[k], rowB[k])
         IN  LeftLoop(f, o, k, i, j + 1, matched \/ eq,
                      IF eq THEN AppendRow(res, mergeRows(rowA, rowB)) ELSE res)

LeftJoin(f, o, k) ==
    IF checkExists(f, o, k) # "nil"
    THEN [df |-> NewDataFrame, err |-> checkExists(f, o, k)]
    ELSE [df |-> LeftLoop(f, o, k, 0, 0, FALSE, appendCols(f, o)), err |-> "nil"]

\* RightMerge with the row of other first.
RightMergeSwapped(rowA, rowB) == mergeRows(rowB, rowA)

\* The merge of RightJoin: mergeRows(rowA, rowB), the row of df first.
RightMerge(rowA, rowB) == mergeRows(rowA, rowB)

RECURSIVE RightLoop(_, _, _, _, _, _, _)
\* The nested loops of RightJoin: the rows of other outside, those of df inside.
RightLoop(f, o, k, i, j, matched, res) ==
    IF i >= RowCount(o) THEN res
    ELSE IF j >= RowCount(f)
         THEN RightLoop(f, o, k, i + 1, 0, FALSE, EmitUnmatched(res, Row(o, i), matched))
    ELSE LET rowB == Row(o, i)
             rowA == Row(f, j)
             eq == KeysEqual(rowB[k], rowA[k])
         IN  RightLoop(f, o, k, i, j + 1, matched \/ eq,
                       IF eq THEN AppendRow(res, RightMerge(rowA, rowB)) ELSE res)

RightJoin(f, o, k) ==
    IF checkExists(f, o, k) # "nil"
    THEN [df |-> NewDataFrame, err |-> checkExists(f, o, k)]
    ELSE [df |-> RightLoop(f, o, k, 0, 0, FALSE, appendCols(f, o)), err |-> "nil"]

RECURSIVE OuterLoop(_, _, _, _, _, _, _, _)
\* The first pair of loops of OuterJoin; matchedRows collects the keys of
\* the left rows that found a match.
OuterLoop(f, o, k, i, j, matched, matchedRows, res) ==
    IF i >= RowCount(f) THEN [result |-> res, matchedRows |-> matchedRows]
    ELSE IF j >= RowCount(o)
         THEN OuterLoop(f, o, k, i + 1, 0, FALSE, matchedRows, EmitUnmatched(res, Row(f, i), matched))
    ELSE LET rowA == Row(f, i)
             rowB == Row(o, j)
             eq == KeysEqual(rowA[k], rowB[k])
         IN  OuterLoop(f, o, k, i, j + 1, matched \/ eq,
                       IF eq THEN matchedRows \cup {rowA[k]} ELSE matchedRows,
                       IF eq THEN AppendRow(res, mergeRows(rowA, rowB)) ELSE res)

\* NotInMatchedRows holding for every right row.
NotInMatchedRowsAlways(matchedRows, v) == TRUE

\* _, exists := matchedRows[rowB[key]]; !exists
NotInMatchedRows(matchedRows, v) == v \notin matchedRows

RECURSIVE OuterRest(_, _, _, _, _)
\* The last loop of OuterJoin: the rows of other whose key is not in matchedRows.
OuterRest(o, k, i, matchedRows, res) ==
    IF i >= RowCount(o) THEN res
    ELSE OuterRest(o, k, i + 1, matchedRows,
                   IF NotInMatchedRows(matchedRows, Row(o, i)[k]) THEN AppendRow(res, Row(o, i)) ELSE res)

OuterJoin(f, o, k) ==
    IF checkExists(f, o, k) # "nil"
    THEN [df |-> NewDataFrame, err |-> checkExists(f, o, k)]
    ELSE LET first == OuterLoop(f, o, k, 0, 0, FALSE, {}, appendCols(f, o))
         IN  [df |-> OuterRest(o, k, 0, first.matchedRows, first.result), err |-> "nil"]

\* The key of a join: one column name.
StringKey(name) == [type |-> "string", names |-> <<name>>]

\* A program that joins two stores once.
InitJoin ==
    /\ WriteIdle
    /\ df \in JoinFrames
    /\ other \in JoinFrames
    /\ key \in {StringKey(name) : name \in ColNames}
    /\ gdf = NoGroups
    /\ result = NoResult
    /\ sqlRows = NoRows
    /\ readOptions = <<>>
    /\ dropOptions = <<>>

Joined(op, r) ==
    /\ result.op = "none"
    /\ result' = [op |-> op, args |-> <<>>, df |-> r.df, err |-> r.err]
    /\ UNCHANGED <<writevars, df, other, key, gdf>>

CallInnerJoin == Joined("InnerJoin", InnerJoin(df, other, key.names[1]))

CallLeftJoin == Joined("LeftJoin", LeftJoin(df, other, key.names[1]))

CallRightJoin == Joined("RightJoin", RightJoin(df, other, key.names[1]))

CallOuterJoin == Joined("OuterJoin", OuterJoin(df, other, key.names[1]))

NextJoin ==
    \/ CallInnerJoin
    \/ CallLeftJoin
    \/ CallRightJoin
    \/ CallOuterJoin

SpecJoin == InitJoin /\ [][NextJoin]_vars

TypeOKJoin ==
    /\ result.op \in {"none", "InnerJoin", "LeftJoin", "RightJoin", "OuterJoin"}
    /\ EqualLengths(result.df)
    /\ result.err = "nil" => DOMAIN result.df = DOMAIN df \cup DOMAIN other

\* ------------------------------------------------------ properties, joins
JoinKey == key.names[1]

BothHaveKey == JoinKey \in DOMAIN df \cap DOMAIN other

\* The pairs (left row, right row), counted from 1, with equal key values.
MatchingPairs(L, R, k) == {p \in (1..RowCount(L)) \X (1..RowCount(R)) : L[k][p[1]] = R[k][p[2]]}

Max(x, y) == IF x >= y THEN x ELSE y

\* C14: for two stores of Na and Nb rows that both have the key column,
\* count(inner) is the number of pairs of rows with equal key and at most
\* count(left) and count(right), count(left) >= Na, count(right) >= Nb and
\* count(outer) >= max(count(left), count(right)).
C14_RowCounts ==
    (result.op # "none" /\ BothHaveKey) =>
        /\ result.err = "nil"
        /\ EqualLengths(result.df)
        /\ LET count == RowCount(result.df)
               left == RowCount(LeftJoin(df, other, JoinKey).df)
               right == RowCount(RightJoin(df, other, JoinKey).df)
           IN  /\ result.op = "InnerJoin" =>
                     /\ count = Cardinality(MatchingPairs(df, other, JoinKey))
                     /\ count <= left
                     /\ count <= right
               /\ result.op = "LeftJoin" => count >= RowCount(df)
               /\ result.op = "RightJoin" => count >= RowCount(other)
               /\ result.op = "OuterJoin" => count >= Max(left, right)

\* An outer join of stores with an unmatched left row and an unmatched
\* right row, which therefore has more rows than the left and right joins.
C14_Witness ==
    /\ result.op = "OuterJoin"
    /\ BothHaveKey
    /\ RowCount(result.df) > Max(RowCount(LeftJoin(df, other, JoinKey).df),
                                 RowCount(RightJoin(df, other, JoinKey).df))

\* The place of pair p among the pairs P, ordered by left row and then by
\* right row.
Rank(P, p) == 1 + Cardinality({q \in P : q[1] < p[1] \/ (q[1] = p[1] /\ q[2] < p[2])})

\* The cell of column c in the merge of row p[1] of L with row p[2] of R:
\* the value of L where L has the column, that of R elsewhere.
MergedCell(L, R, p, c) == IF c \in DOMAIN L THEN L[c][p[1]] ELSE R[c][p[2]]

\* C15: InnerJoin emits one merged row for every pair of a left and a right
\* row with equal keys and no other row, ordered by left row and then by
\* right row; a merged row has the values of the left row and, for the
\* columns the left store lacks, those of the right row.
C15_InnerJoin ==
    (result.op = "InnerJoin" /\ BothHaveKey) =>
        LET P == MatchingPairs(df, other, JoinKey) IN
        /\ DOMAIN result.df = DOMAIN df \cup DOMAIN other
        /\ \A c \in DOMAIN result.df :
              /\ Len(result.df[c]) = Cardinality(P)
              /\ \A p \in P : result.df[c][Rank(P, p)] = MergedCell(df, other, p, c)

\* An inner join where one left row matches two right rows and a column of
\* both stores differs between the matched rows.
C15_Witness ==
    /\ result.op = "InnerJoin"
    /\ BothHaveKey
    /\ \E p \in MatchingPairs(df, other, JoinKey), q \in MatchingPairs(df, other, JoinKey) :
          /\ p[1] = q[1]
          /\ p[2] # q[2]
          /\ \E c \in (DOMAIN df \cap DOMAIN other) \ {JoinKey} : df[c][p[1]] # other[c][p[2]]

\* The rows of B whose key equals that of row i of A.
Matches(A, B, k, i) == {j \in 1..RowCount(B) : A[k][i] = B[k][j]}

\* The number of output rows that stem from row i of A.
Block(A, B, k, i) == Max(1, Cardinality(Matches(A, B, k, i)))

RECURSIVE Offset(_, _, _, _)
\* The number of output rows that stem from the rows of A before row i.
Offset(A, B, k, i) == IF i <= 1 THEN 0 ELSE Offset(A, B, k, i - 1) + Block(A, B, k, i - 1)

\* The output row of the pair (row i of A, row j of B).
Position(A, B, k, i, j) == Offset(A, B, k, i) + 1 + Cardinality({x \in Matches(A, B, k, i) : x < j})

\* The cell of column c in row i of A emitted alone.
Alone(A, i, c) == IF c \in DOMAIN A THEN A[c][i] ELSE Nil

\* The rows Offset+1.. of res are, for every row of df in order, its merges
\* with the matching rows of other in order or else the row alone.
LeftPass(res) ==
    \A c \in DOMAIN res, i \in 1..RowCount(df) :
        IF Matches(df, other, JoinKey, i) = {}
        THEN res[c][Offset(df, other, JoinKey, i) + 1] = Alone(df, i, c)
        ELSE \A j \in Matches(df, other, JoinKey, i) :
                res[c][Position(df, other, JoinKey, i, j)] = MergedCell(df, other, <<i, j>>, c)

\* C16: LeftJoin emits, for every left row in order, one merged row per
\* right row with an equal key or, without such a row, the left row alone
\* once with nil in every right-only column; these are all the output rows.
C16_LeftJoin ==
    (result.op = "LeftJoin" /\ BothHaveKey) =>
        /\ DOMAIN result.df = DOMAIN df \cup DOMAIN other
        /\ \A c \in DOMAIN result.df : Len(result.df[c]) = Offset(df, other, JoinKey, RowCount(df) + 1)
        /\ LeftPass(result.df)

\* A left join with a matched and an unmatched left row and a right-only column.
C16_Witness ==
    /\ result.op = "LeftJoin"
    /\ BothHaveKey
    /\ DOMAIN other \ DOMAIN df # {}
    /\ \E i \in 1..RowCount(df) : Matches(df, other, JoinKey, i) = {}
    /\ \E i \in 1..RowCount(df) : Matches(df, other, JoinKey, i) # {}

\* The right rows whose key equals the key of no left row.
RightOnly == {j \in 1..RowCount(other) : Matches(other, df, JoinKey, j) = {}}

\* C17: OuterJoin emits the rows of the left join and then, alone and in
\* order, exactly the right rows whose key equals no left row's key.
C17_OuterJoin ==
    (result.op = "OuterJoin" /\ BothHaveKey) =>
        LET leftRows == Offset(df, other, JoinKey, RowCount(df) + 1) IN
        /\ DOMAIN result.df = DOMAIN df \cup DOMAIN other
        /\ LeftPass(result.df)
        /\ \A c \in DOMAIN result.df :
              /\ Len(result.df[c]) = leftRows + Cardinality(RightOnly)
              /\ \A j \in RightOnly :
                    result.df[c][leftRows + 1 + Cardinality({x \in RightOnly : x < j})] = Alone(other, j, c)

\* An outer join with a matching pair, a right row that matches nothing and
\* a left-only column.
C17_Witness ==
    /\ result.op = "OuterJoin"
    /\ BothHaveKey
    /\ MatchingPairs(df, other, JoinKey) # {}
    /\ RightOnly # {}
    /\ DOMAIN df \ DOMAIN other # {}

\* The columns other than the key that both stores have.
SharedColumns == (DOMAIN df \cap DOMAIN other) \ {JoinKey}

\* C18 as stated: RightJoin(L, R, k) is the very store LeftJoin(R, L, k) is.
C18_Original ==
    (result.op = "RightJoin" /\ BothHaveKey) => result.df = LeftJoin(other, df, JoinKey).df

\* C18: RightJoin(L, R, k) has the rows of LeftJoin(R, L, k) in the same
\* order, with the same cells outside the non-key columns both stores have;
\* in those columns a merged row holds the value of L and an R row emitted
\* alone the value of R.
C18_RightJoin ==
    (result.op = "RightJoin" /\ BothHaveKey) =>
        LET swapped == LeftJoin(other, df, JoinKey).df IN
        /\ DOMAIN result.df = DOMAIN swapped
        /\ \A c \in DOMAIN result.df :
              /\ Len(result.df[c]) = Len(swapped[c])
              /\ c \notin SharedColumns => result.df[c] = swapped[c]
              /\ \A j \in 1..RowCount(other) :
                    IF Matches(other, df, JoinKey, j) = {}
                    THEN result.df[c][Offset(other, df, JoinKey, j) + 1] = Alone(other, j, c)
                    ELSE \A i \in Matches(other, df, JoinKey, j) :
                            result.df[c][Position(other, df, JoinKey, j, i)] = MergedCell(df, other, <<i, j>>, c)

\* A right join whose merged row takes the value of a shared column from L
\* where R holds another value.
C18_Witness ==
    /\ result.op = "RightJoin"
    /\ BothHaveKey
    /\ \E p \in MatchingPairs(df, other, JoinKey), c \in SharedColumns :
          /\ df[c][p[1]] # other[c][p[2]]
          /\ result.df[c][Position(other, df, JoinKey, p[2], p[1])] = df[c][p[1]]

\* --------------------------------------------------------------- grouping
\* The key argument of Groupby: a string, a []string, a Series, a map, a
\* func or a value of a type Groupby does not name (an int).
KeyInputs ==
    {StringKey(name) : name \in ColNames \cup {"zz"}}
    \cup {[type |-> "[]string", names |-> ns] : ns \in {<<"a">>, <<"a", "b">>, <<"b", "a">>}}
    \cup {[type |-> t, names |-> <<>>] : t \in {"Series", "map[string]string", "func", "int"}}

\* An int64, as the SQL read stores integer columns.
Int64V(n) == [kind |-> "int64", v |-> n]

\* The cells of the stores that are grouped.
GroupValues == Values \cup {Int64V(1)}

\* The stores Groupby is applied to: every column has the same length.
GroupFrames == UNION {[S -> [1..n -> GroupValues]] : S \in SUBSET ColNames, n \in 0..MaxRows}

RECURSIVE groupByLoop(_, _, _, _)
\* The loop of groupByString: groups[groupKey] = append(groups[groupKey], row).
groupByLoop(f, colName, i, groups) ==
    IF i >= RowCount(f) THEN groups
    ELSE LET row == Row(f, i)
             groupKey == row[colName]
         IN  groupByLoop(f, colName, i + 1,
                 [g \in DOMAIN groups \cup {groupKey} |->
                     IF g = groupKey
                     THEN (IF g \in DOMAIN groups THEN Append(groups[g], row) ELSE <<row>>)
                     ELSE groups[g]])

\* groupByString: the groups, or the error for a column the store lacks.
groupByString(f, colName) ==
    IF colName \notin DOMAIN f
    THEN [groups |-> <<>>, err |-> "Column does not exist"]
    ELSE [groups |-> groupByLoop(f, colName, 0, <<>>), err |-> "nil"]

\* DataFrame.Groupby: only the string case groups anything; the []string,
\* Series, map and func cases are empty and fall through to the return.
Groupby(f, k) ==
    CASE k.type = "string" ->
            IF groupByString(f, k.names[1]).err # "nil"
            THEN [Groups |-> <<>>, Key |-> "", Err |-> "unable to group by string: Column does not exist"]
            ELSE [Groups |-> groupByString(f, k.names[1]).groups, Key |-> k.names[1], Err |-> "nil"]
      [] k.type \in {"[]string", "Series", "map[string]string", "func"} ->
            [Groups |-> <<>>, Key |-> "", Err |-> "nil"]
      [] OTHER -> [Groups |-> <<>>, Key |-> "", Err |-> "unsupported groupby key type"]

FloatV(x) == [kind |-> "float", v |-> x]

\* The cases of the type switch of Sum.
SummedKinds == {"int", "float64", "float32"}

\* The nil *DataFrame a call returns next to an error.
NilDataFrame == [c \in {"<nil>"} |-> <<>>]

RECURSIVE SumRows(_, _, _)
\* The sum over rows[i..] of the values under colName that the type switch
\* of Sum names: int, float64, float32.
SumRows(rows, colName, i) ==
    IF i > Len(rows) THEN 0
    ELSE (IF colName \in DOMAIN rows[i] /\ rows[i][colName].kind \in SummedKinds
          THEN rows[i][colName].v ELSE 0)
         + SumRows(rows, colName, i + 1)

RECURSIVE SumLoop(_, _, _, _, _, _)
\* The loops of Sum over the groups, in the order the map yields them, and
\* over colNames; every sum is added to resultDf as a column of one cell.
SumLoop(g, colNames, order, gi, ci, resultDf) ==
    IF gi > Len(order) THEN [df |-> resultDf, err |-> "nil"]
    ELSE IF ci > Len(colNames) THEN SumLoop(g, colNames, order, gi + 1, 1, resultDf)
    ELSE LET r == AddColumn(resultDf, colNames[ci],
                            <<FloatV(SumRows(g.Groups[order[gi]], colNames[ci], 1))>>)
         IN  IF r.err # "nil"
             THEN [df |-> NilDataFrame, err |-> "failed to add column"]
             ELSE SumLoop(g, colNames, order, gi, ci + 1, r.df)

\* Sum without the test of gdf.Err.
SumIgnoringErr(g, colNames, order) == SumLoop(g, colNames, order, 1, 1, NewDataFrame)

\* GroupedDataFrame.Sum, with the groups visited in the given order.
Sum(g, colNames, order) ==
    IF g.Err # "nil" THEN [df |-> NilDataFrame, err |-> g.Err]
    ELSE SumLoop(g, colNames, order, 1, 1, NewDataFrame)

\* The orders in which a range over a map with the keys S may yield them.
MapOrders(S) == {o \in [1..Cardinality(S) -> S] : \A i, j \in DOMAIN o : i # j => o[i] # o[j]}

\* The colNames arguments of Sum.
SumInputs == {<<>>, <<"a">>, <<"b">>, <<"a", "b">>}

\* A program that groups one store and sums the groups.
InitGroup ==
    /\ WriteIdle
    /\ df \in GroupFrames
    /\ other = NewDataFrame
    /\ key \in KeyInputs
    /\ gdf = NoGroups
    /\ result = NoResult
    /\ sqlRows = NoRows
    /\ readOptions = <<>>
    /\ dropOptions = <<>>

CallGroupby ==
    /\ gdf = NoGroups
    /\ gdf' = Groupby(df, key)
    /\ UNCHANGED <<writevars, df, other, key, result>>

CallSum ==
    /\ gdf # NoGroups
    /\ result.op = "none"
    /\ \E colNames \in SumInputs, order \in MapOrders(DOMAIN gdf.Groups) :
        LET r == Sum(gdf, colNames, order) IN
        result' = [op |-> "Sum", args |-> colNames, df |-> r.df, err |-> r.err]
    /\ UNCHANGED <<writevars, df, other, key, gdf>>

NextGroup ==
    \/ CallGroupby
    \/ CallSum

SpecGroup == InitGroup /\ [][NextGroup]_vars

TypeOKGroup ==
    /\ result.op \in {"none", "Sum"}
    /\ gdf.Err \in {"", "nil", "unable to group by string: Column does not exist", "unsupported groupby key type"}

\* ---------------------------------------------------- properties, grouping
RECURSIVE FirstSeen(_)
\* The distinct values of a column in the order of their first rows.
FirstSeen(data) ==
    IF data = <<>> THEN <<>>
    ELSE LET front == FirstSeen(SubSeq(data, 1, Len(data) - 1))
             last == data[Len(data)]
         IN  IF \E i \in DOMAIN front : front[i] = last THEN front ELSE Append(front, last)

RECURSIVE Total(_, _, _, _, _)
\* The kinds of the integer and float values.
NumericKinds == {"int", "int64", "float64", "float32"}

\* The total of the numeric values of column c over the rows i.. of f whose
\* key column k holds v.
Total(f, k, v, c, i) ==
    IF i > RowCount(f) THEN 0
    ELSE (IF f[k][i] = v /\ f[c][i].kind \in NumericKinds THEN f[c][i].v ELSE 0) + Total(f, k, v, c, i + 1)

\* C19: grouping a store with rows by one of its columns and summing another
\* one succeeds for any number of groups and gives a GroupKey column with the
\* distinct keys in first-seen order and, per group, the total of the column.
C19_Original ==
    (/\ result.op = "Sum"
     /\ key.type = "string"
     /\ key.names[1] \in DOMAIN df
     /\ RowCount(df) > 0
     /\ Len(result.args) = 1
     /\ result.args[1] \in DOMAIN df \ {key.names[1]}) =>
        LET keys == FirstSeen(df[key.names[1]])
            c == result.args[1]
        IN  /\ result.err = "nil"
            /\ DOMAIN result.df = {"GroupKey", c}
            /\ result.df["GroupKey"] = keys
            /\ result.df[c] = [i \in DOMAIN keys |-> FloatV(Total(df, key.names[1], keys[i], c, 1))]

\* Rows i and j of the store are together in a group.
SameGroup(i, j) ==
    \E g \in DOMAIN gdf.Groups :
        /\ \E x \in DOMAIN gdf.Groups[g] : gdf.Groups[g][x] = Row(df, i - 1)
        /\ \E x \in DOMAIN gdf.Groups[g] : gdf.Groups[g][x] = Row(df, j - 1)

\* C20: grouping by a list of columns of the store puts two rows in the same
\* group exactly when they agree on every listed column, and every row is in
\* a group.
C20_Original ==
    (/\ gdf # NoGroups
     /\ key.type = "[]string"
     /\ \A n \in DOMAIN key.names : key.names[n] \in DOMAIN df) =>
        /\ gdf.Err = "nil"
        /\ \A i \in 1..RowCount(df) : SameGroup(i, i)
        /\ \A i \in 1..RowCount(df), j \in 1..RowCount(df) :
              SameGroup(i, j) <=> \A n \in DOMAIN key.names : df[key.names[n]][i] = df[key.names[n]][j]

C22_Original ==
    (gdf # NoGroups /\ key.type \notin {"string", "[]string"}) =>
        gdf.Err = "unsupported groupby key type"

\* C23: Sum without column names, on the groups of a store with rows, gives
\* an output column for every column of the store other than the key.
C23_Original ==
    (/\ result.op = "Sum"
     /\ result.args = <<>>
     /\ key.type = "string"
     /\ key.names[1] \in DOMAIN df
     /\ RowCount(df) > 0) =>
        /\ result.err = "nil"
        /\ DOMAIN df \ {key.names[1]} \subseteq DOMAIN result.df

\* C24: where Sum succeeds (the store has one group), the sum of a requested
\* column is the total of its integer and float values, int64 included, and
\* the other values are skipped.
C24_Original ==
    (/\ result.op = "Sum"
     /\ result.err = "nil"
     /\ key.type = "string"
     /\ key.names[1] \in DOMAIN df
     /\ RowCount(df) > 0) =>
        \A n \in DOMAIN result.args :
            LET c == result.args[n] IN
            c \in DOMAIN df =>
                result.df[c] = <<FloatV(Total(df, key.names[1], df[key.names[1]][1], c, 1))>>

\* ---------------------------------------------------------------- SQL read
MaxReadRows == 2

\* The scan destinations createScanDestination chooses from.
ScanTypes == {"NullString", "NullInt64", "NullFloat64", "NullBool", "NullTime"}

\* A scan destination whose Valid is false.
SQLNull == [kind |-> "NULL"]

StringV(x) == [kind |-> "string", s |-> x]

Float64V(x) == [kind |-> "float64", v |-> x]

BoolV(x) == [kind |-> "bool", b |-> x]

\* A time.Time, named by its RFC 3339 form.
TimeV(x) == [kind |-> "time", t |-> x]

\* time.Time{}
ZeroTime == TimeV("0001-01-01T00:00:00Z")

\* What rows.Scan may leave in a destination of the type: NULL or a value.
ScannedCells(dest) ==
    {SQLNull} \cup
    CASE dest = "NullString" -> {StringV("2024-01-01"), StringV("abc")}
      [] dest = "NullInt64" -> {Int64V(1)}
      [] dest = "NullFloat64" -> {Float64V(1)}
      [] dest = "NullBool" -> {BoolV(TRUE)}
      [] OTHER -> {TimeV("2024-01-01T00:00:00Z")}

\* The column names of the result sets: none, one, two, two of one name.
ReadColumnNames == {<<>>, <<"a">>, <<"a", "b">>, <<"b", "a">>, <<"a", "a">>}

\* rows.ColumnTypes(): the name and the scan destination of every column.
ReadColumns ==
    UNION {{[i \in 1..Len(names) |-> [name |-> names[i], dest |-> dests[i]]] :
                dests \in [1..Len(names) -> ScanTypes]} : names \in ReadColumnNames}

\* The rows a result set with the given columns may deliver.
ReadData(columns) ==
    LET RowsOf == {r \in [1..Len(columns) -> UNION {ScannedCells(d) : d \in ScanTypes}] :
                      \A i \in 1..Len(columns) : r[i] \in ScannedCells(columns[i].dest)}
    IN  UNION {[1..n -> RowsOf] : n \in 0..MaxReadRows}

\* SQLReadOption.NullHandler: unset, a string, a map from column names to
\* defaults, or a value of another type.
NullHandlerInputs ==
    {[type |-> "unset"], [type |-> "int"]}
    \cup {[type |-> "string", s |-> h] : h \in {"nil", "zero", "skip_row", "invalid_handler"}}
    \cup {[type |-> "map", m |-> [c \in {"a"} |-> StringV("Unknown")]]}

ParseDatesInputs == {<<>>, <<"a">>, <<"b">>}

\* The variadic options of FromSQL: none, or one SQLReadOption.
ReadOptionInputs ==
    {<<>>} \cup {<<[NullHandler |-> h, ParseDates |-> p]>> : h \in NullHandlerInputs, p \in ParseDatesInputs}

\* fromSQLRows, the options with the default NullHandler "nil".
ParseReadOptions(o) ==
    IF Len(o) > 0
    THEN [NullHandler |-> IF o[1].NullHandler.type # "unset" THEN o[1].NullHandler
                          ELSE [type |-> "string", s |-> "nil"],
          ParseDates |-> o[1].ParseDates]
    ELSE [NullHandler |-> [type |-> "string", s |-> "nil"], ParseDates |-> <<>>]

\* The value handleNull returns under "zero" for a timestamp column,
\* were it the zero time.
ZeroOfTimeIsZeroTime == ZeroTime

\* handleNull under "zero" for a timestamp column: nil.
ZeroOfTime == Nil

\* The zero value handleNull returns under "zero".
ZeroValue(dest) ==
    CASE dest = "NullString" -> StringV("")
      [] dest = "NullInt64" -> Int64V(0)
      [] dest = "NullFloat64" -> Float64V(0)
      [] dest = "NullBool" -> BoolV(FALSE)
      [] OTHER -> ZeroOfTime

\* handleNull: the value that replaces a NULL, or an error.
handleNull(colName, nullHandler, dest) ==
    CASE nullHandler.type = "string" ->
            (CASE nullHandler.s = "nil" -> [value |-> Nil, err |-> "nil"]
               [] nullHandler.s = "zero" -> [value |-> ZeroValue(dest), err |-> "nil"]
               [] nullHandler.s = "skip_row" -> [value |-> Nil, err |-> "skip_row"]
               [] OTHER -> [value |-> Nil, err |-> "unknown null handler"])
      [] nullHandler.type = "map" ->
            IF colName \in DOMAIN nullHandler.m
            THEN [value |-> nullHandler.m[colName], err |-> "nil"]
            ELSE [value |-> Nil, err |-> "nil"]
      [] OTHER -> [value |-> Nil, err |-> "invalid null handler type"]

\* extractValue turning every NULL into nil without handleNull.
extractValueKeepingNull(cell, colName, nullHandler, dest) ==
    [value |-> IF cell # SQLNull THEN cell ELSE Nil, err |-> "nil"]

\* extractValue: the scanned value, or what handleNull makes of a NULL.
extractValue(cell, colName, nullHandler, dest) ==
    IF cell # SQLNull THEN [value |-> cell, err |-> "nil"]
    ELSE handleNull(colName, nullHandler, dest)

\* time.Parse over the formats of parseDateValue: the time, or "" when no
\* format fits.
ParseTime(x) == IF x = "2024-01-01" THEN "2024-01-01T00:00:00Z" ELSE ""

\* time.Unix(sec, 0).
UnixTime(sec) == IF sec = 0 THEN TimeV("1970-01-01T00:00:00Z") ELSE TimeV("1970-01-01T00:00:01Z")

\* parseDateValue.
parseDateValue(value) ==
    CASE value = Nil -> [value |-> ZeroTime, err |-> "nil"]
      [] value.kind = "time" -> [value |-> value, err |-> "nil"]
      [] value.kind = "string" ->
            IF ParseTime(value.s) # ""
            THEN [value |-> TimeV(ParseTime(value.s)), err |-> "nil"]
            ELSE [value |-> ZeroTime, err |-> "unable to parse date string"]
      [] value.kind \in {"int64", "int", "float64"} -> [value |-> UnixTime(value.v), err |-> "nil"]
      [] OTHER -> [value |-> ZeroTime, err |-> "unsupported type for date parsing"]

\* SliceContains finding nothing.
SliceContainsNever(list, x) == FALSE

\* slices.Contains
SliceContains(list, x) == \E i \in DOMAIN list : list[i] = x

RECURSIVE ColumnLoop(_, _, _, _, _)
\* The loop of fromSQLRows over the columns of one scanned row, at column i:
\* the values of the row, "skip", or the error that ends the read.
ColumnLoop(row, columns, o, i, rowValues) ==
    IF i > Len(columns) THEN [status |-> "ok", values |-> rowValues]
    ELSE LET e == extractValue(row[i], columns[i].name, o.NullHandler, columns[i].dest) IN
         IF e.err = "skip_row" THEN [status |-> "skip", values |-> <<>>]
         ELSE IF e.err # "nil" THEN [status |-> e.err, values |-> <<>>]
         ELSE IF Len(o.ParseDates) > 0 /\ SliceContains(o.ParseDates, columns[i].name)
              THEN LET d == parseDateValue(e.value) IN
                   IF d.err # "nil" THEN [status |-> "error parsing date", values |-> <<>>]
                   ELSE ColumnLoop(row, columns, o, i + 1, Append(rowValues, d.value))
         ELSE ColumnLoop(row, columns, o, i + 1, Append(rowValues, e.value))

RECURSIVE BuildLoop(_, _, _, _)
\* The loop of fromSQLRows that adds one column per result-set column.
BuildLoop(columns, rowData, i, f) ==
    IF i > Len(columns) THEN [df |-> f, err |-> "nil"]
    ELSE LET r == AddColumn(f, columns[i].name, [j \in 1..Len(rowData) |-> rowData[j][i]]) IN
         IF r.err # "nil" THEN [df |-> NilDataFrame, err |-> r.err]
         ELSE BuildLoop(columns, rowData, i + 1, r.df)

\* The driver fails nowhere.
NoFault == [kind |-> "none", at |-> 0]

\* What the driver may do to a read: nothing, fail the query, fail
\* ColumnTypes, fail the Scan of row at, or end the iteration with an error
\* after at rows.
Faults(rs) ==
    {NoFault, [kind |-> "query", at |-> 0], [kind |-> "columnTypes", at |-> 0]}
    \cup {[kind |-> "scan", at |-> r] : r \in 1..Len(rs.data)}
    \cup {[kind |-> "iteration", at |-> r] : r \in 0..Len(rs.data)}

RECURSIVE RowsLoop(_, _, _, _, _)
\* The rows.Next loop of fromSQLRows at row i, and what follows it.
RowsLoop(rs, o, fault, i, rowData) ==
    IF i > Len(rs.data) \/ (fault.kind = "iteration" /\ i > fault.at)
    THEN IF fault.kind = "iteration"
         THEN [df |-> NilDataFrame, err |-> "error iterating rows"]
         ELSE BuildLoop(rs.columns, rowData, 1, NewDataFrame)
    ELSE IF fault.kind = "scan" /\ fault.at = i
         THEN [df |-> NilDataFrame, err |-> "error scanning row"]
    ELSE LET r == ColumnLoop(rs.data[i], rs.columns, o, 1, <<>>) IN
         IF r.status = "skip" THEN RowsLoop(rs, o, fault, i + 1, rowData)
         ELSE IF r.status # "ok" THEN [df |-> NilDataFrame, err |-> r.status]
         ELSE RowsLoop(rs, o, fault, i + 1, Append(rowData, r.values))

fromSQLRows(rs, o, fault) ==
    IF fault.kind = "columnTypes"
    THEN [df |-> NilDataFrame, err |-> "error getting column types"]
    ELSE RowsLoop(rs, ParseReadOptions(o), fault, 1, <<>>)

\* FromSQL / FromSQLContext.
FromSQL(rs, o, fault) ==
    IF fault.kind = "query"
    THEN [df |-> NilDataFrame, err |-> "error executing query"]
    ELSE fromSQLRows(rs, o, fault)

\* A program that reads one result set.
InitRead ==
    /\ WriteIdle
    /\ df = NewDataFrame
    /\ other = NewDataFrame
    /\ key = NoKey
    /\ gdf = NoGroups
    /\ result = NoResult
    /\ \E columns \in ReadColumns :
          \E data \in ReadData(columns) : sqlRows = [columns |-> columns, data |-> data]
    /\ readOptions \in ReadOptionInputs
    /\ dropOptions = <<>>

CallFromSQL ==
    /\ result.op = "none"
    /\ \E fault \in Faults(sqlRows) :
        LET r == FromSQL(sqlRows, readOptions, fault) IN
        result' = [op |-> "FromSQL", args |-> <<fault>>, df |-> r.df, err |-> r.err]
    /\ UNCHANGED <<pc, entry, options, df, opts, dialect, exists, nRows, batchStart, tx, issued, err,
                   driver, other, key, gdf, sqlRows, readOptions, dropOptions>>

NextRead == CallFromSQL

SpecRead == InitRead /\ [][NextRead]_vars

TypeOKRead ==
    /\ result.op \in {"none", "FromSQL"}
    /\ result.err # "skip_row"
    /\ result.err = "nil" <=> (result.op = "FromSQL" /\ result.df # NilDataFrame)

\* ---------------------------------------------------- properties, SQL read
ReadDone == result.op = "FromSQL"

\* The read ran with the string h as its NullHandler.
Handler(h) == ParseReadOptions(readOptions).NullHandler = [type |-> "string", s |-> h]

InParseDates(i) ==
    \E k \in DOMAIN ParseReadOptions(readOptions).ParseDates :
        ParseReadOptions(readOptions).ParseDates[k] = sqlRows.columns[i].name

\* The columns of the result set have different names.
DistinctNames == \A i, j \in DOMAIN sqlRows.columns : i # j => sqlRows.columns[i].name # sqlRows.columns[j].name

NullColumns(r) == {i \in DOMAIN sqlRows.columns : sqlRows.data[r][i] = SQLNull}

\* The rows of the result set without a NULL.
FullRows == {r \in DOMAIN sqlRows.data : NullColumns(r) = {}}

\* The parseDates columns of row r whose value is not NULL and is neither a
\* time, a number nor a string in one of the formats.
BadDateColumns(r) ==
    {i \in DOMAIN sqlRows.columns :
        /\ InParseDates(i)
        /\ sqlRows.data[r][i] # SQLNull
        /\ \/ sqlRows.data[r][i].kind = "bool"
           \/ sqlRows.data[r][i].kind = "string" /\ sqlRows.data[r][i].s # "2024-01-01"}

\* The place of row r among the rows in R.
PlaceIn(R, r) == Cardinality({x \in R : x <= r})

\* C25: a read with "skip_row" never returns the skip as an error; it
\* succeeds when the driver does not fail and no value fails date parsing,
\* and a read that succeeds has one column per result-set column holding
\* exactly the rows without a NULL, in their order.
C25_SkipRow ==
    (ReadDone /\ Handler("skip_row") /\ DistinctNames) =>
        /\ result.err \in {"nil", "error executing query", "error getting column types",
                            "error scanning row", "error iterating rows", "error parsing date"}
        /\ (result.args[1] = NoFault /\ \A r \in DOMAIN sqlRows.data : BadDateColumns(r) = {})
              => result.err = "nil"
        /\ result.err = "nil" =>
              /\ DOMAIN result.df = {sqlRows.columns[i].name : i \in DOMAIN sqlRows.columns}
              /\ \A i \in DOMAIN sqlRows.columns :
                    LET col == result.df[sqlRows.columns[i].name] IN
                    /\ Len(col) = Cardinality(FullRows)
                    /\ \A r \in FullRows :
                          IF InParseDates(i) THEN col[PlaceIn(FullRows, r)].kind = "time"
                          ELSE col[PlaceIn(FullRows, r)] = sqlRows.data[r][i]

\* A read with "skip_row" of two columns whose rows all have a NULL.
C25_Witness ==
    /\ ReadDone
    /\ Handler("skip_row")
    /\ Len(sqlRows.columns) = 2
    /\ Len(sqlRows.data) = MaxReadRows
    /\ FullRows = {}
    /\ result.err = "nil"
    /\ DOMAIN result.df = {"a", "b"}

\* The zero value of every scan type, the zero time for timestamps.
ZeroOfType(dest) ==
    CASE dest = "NullString" -> StringV("")
      [] dest = "NullInt64" -> Int64V(0)
      [] dest = "NullFloat64" -> Float64V(0)
      [] dest = "NullBool" -> BoolV(FALSE)
      [] OTHER -> ZeroTime

\* C26 as stated: under "zero" every NULL becomes the zero value of its
\* scan type, the zero time for a timestamp column, and no cell is nil.
C26_Original ==
    (ReadDone /\ Handler("zero") /\ DistinctNames /\ result.err = "nil") =>
        \A i \in DOMAIN sqlRows.columns, r \in DOMAIN sqlRows.data :
            (~InParseDates(i) /\ sqlRows.data[r][i] = SQLNull) =>
                /\ result.df[sqlRows.columns[i].name][r] = ZeroOfType(sqlRows.columns[i].dest)
                /\ result.df[sqlRows.columns[i].name][r] # Nil

\* C26: under "zero", in the store a read returns, a NULL of a column that
\* is not in parseDates is "" in a string column, 0 in an integer or float
\* column, false in a boolean column and nil in a timestamp column.
C26_ZeroHandler ==
    (ReadDone /\ Handler("zero") /\ DistinctNames /\ result.err = "nil") =>
        \A i \in DOMAIN sqlRows.columns, r \in DOMAIN sqlRows.data :
            (~InParseDates(i) /\ sqlRows.data[r][i] = SQLNull) =>
                result.df[sqlRows.columns[i].name][r] =
                    IF sqlRows.columns[i].dest = "NullTime" THEN Nil
                    ELSE ZeroOfType(sqlRows.columns[i].dest)

\* A read with "zero" of a row with a NULL timestamp and a NULL string.
C26_Witness ==
    /\ ReadDone
    /\ Handler("zero")
    /\ result.err = "nil"
    /\ \E r \in DOMAIN sqlRows.data, i \in DOMAIN sqlRows.columns, j \in DOMAIN sqlRows.columns :
          /\ sqlRows.columns[i].dest = "NullTime"
          /\ sqlRows.columns[j].dest = "NullString"
          /\ sqlRows.data[r][i] = SQLNull
          /\ sqlRows.data[r][j] = SQLNull
          /\ result.df[sqlRows.columns[i].name][r] = Nil
          /\ result.df[sqlRows.columns[j].name][r] = StringV("")

\* The NullHandler is a string other than "nil", "zero" and "skip_row", or
\* neither a string nor a map.
InvalidHandler ==
    LET h == ParseReadOptions(readOptions).NullHandler IN
    \/ h.type = "string" /\ h.s \notin {"nil", "zero", "skip_row"}
    \/ h.type \notin {"string", "map"}

\* C27: a read with an invalid NullHandler fails and returns no store,
\* whatever the rows.
C27_Original ==
    (ReadDone /\ InvalidHandler) => (result.err # "nil" /\ result.df = NilDataFrame)

\* C28: where the driver does not fail and the values that are not NULL
\* parse, a NULL of a parseDates column becomes the zero time and the read
\* succeeds, under "nil", "zero" and a map of defaults.
C28_Original ==
    (/\ ReadDone
     /\ result.args[1] = NoFault
     /\ DistinctNames
     /\ ~InvalidHandler
     /\ ~Handler("skip_row")
     /\ \A r \in DOMAIN sqlRows.data : BadDateColumns(r) = {}) =>
        /\ result.err = "nil"
        /\ \A i \in DOMAIN sqlRows.columns, r \in DOMAIN sqlRows.data :
              (InParseDates(i) /\ sqlRows.data[r][i] = SQLNull) =>
                  result.df[sqlRows.columns[i].name][r] = ZeroTime

\* The rows whose first value failing date parsing comes before any NULL.
AbortingRows ==
    {r \in DOMAIN sqlRows.data :
        \E i \in BadDateColumns(r) : \A j \in NullColumns(r) : i < j}

\* C29: under "skip_row", with a driver that does not fail, the read fails
\* with the date-parsing error and returns no store exactly when some row
\* has a value failing date parsing before its first NULL; a row whose
\* first NULL comes first is dropped without an error.
C29_SkipOrder ==
    (ReadDone /\ Handler("skip_row") /\ result.args[1] = NoFault) =>
        /\ AbortingRows # {} => (result.err = "error parsing date" /\ result.df = NilDataFrame)
        /\ AbortingRows = {} => result.err # "error parsing date"
        /\ result.err = "nil" =>
              \A c \in DOMAIN result.df : Len(result.df[c]) = Cardinality(FullRows)

\* A read with "skip_row" that drops a row whose NULL comes before a value
\* failing date parsing, and keeps another row.
C29_Witness ==
    /\ ReadDone
    /\ Handler("skip_row")
    /\ result.err = "nil"
    /\ FullRows # {}
    /\ \E r \in DOMAIN sqlRows.data :
          /\ NullColumns(r) = {1}
          /\ BadDateColumns(r) = {2}

\* ------------------------------------------------------------ DropDuplicates
\* Cell values of the stores deduplicated: nil, the int 1 and the string "1".
DropValues == {Nil, IntV(1), StringV("1")}

\* Stores whose columns have one length.
DropFrames == UNION {[S -> [1..n -> DropValues]] : S \in SUBSET ColNames, n \in 0..MaxRows}

\* DropDuplicatesOption values; Keep "" and Subset <<>> are the zero values.
DropOptionInputs ==
    [Subset : {<<>>, <<"a">>, <<"b">>, <<"a", "b">>, <<"zz">>},
     Keep : {"", "first", "last", "none", "any"},
     Inplace : BOOLEAN]

\* The variadic options argument: absent, or one option.
DropOptionArgs == {<<>>} \cup {<<o>> : o \in DropOptionInputs}

\* finalOptions: the defaults, overwritten by what the caller set.
ParseDropOptions(o) ==
    IF Len(o) = 0 THEN [Subset |-> <<>>, Keep |-> "first", Inplace |-> FALSE]
    ELSE [Subset |-> o[1].Subset,
          Keep |-> IF o[1].Keep # "" THEN o[1].Keep ELSE "first",
          Inplace |-> o[1].Inplace]

\* fmt.Sprintf("%v", value)
Sprintv(value) ==
    CASE value.kind = "int" -> ToString(value.v)
      [] value.kind = "string" -> value.s
      [] OTHER -> "?"

RECURSIVE getRowKey(_, _, _, _, _)
\* getRowKey: name ":" value "|" for every column named, "nil" for nil.
getRowKey(f, rowIndex, colNames, k, builder) ==
    IF k > Len(colNames) THEN [key |-> builder, err |-> "nil"]
    ELSE IF colNames[k] \notin DOMAIN f THEN [key |-> "", err |-> "Column not found"]
    ELSE LET value == f[colNames[k]][rowIndex + 1] IN
         getRowKey(f, rowIndex, colNames, k + 1,
                   builder \o colNames[k] \o ":"
                           \o (IF value = Nil THEN "nil" ELSE Sprintv(value)) \o "|")

RECURSIVE KeepFirst(_, _, _, _, _)
\* case "first": rows 0..Nrows-1, a row is kept when its key is not seen.
KeepFirst(f, colNames, i, seen, indexesToKeep) ==
    IF i >= RowCount(f) THEN [indexes |-> indexesToKeep, err |-> "nil"]
    ELSE LET rowKey == getRowKey(f, i, colNames, 1, "") IN
         IF rowKey.err # "nil" THEN [indexes |-> <<>>, err |-> "could not get row key"]
         ELSE IF rowKey.key \in seen THEN KeepFirst(f, colNames, i + 1, seen, indexesToKeep)
         ELSE KeepFirst(f, colNames, i + 1, seen \cup {rowKey.key}, Append(indexesToKeep, i))

RECURSIVE KeepLast(_, _, _, _, _)
\* case "last": rows Nrows-1..0, then sort.Ints (the indexes are prepended).
KeepLast(f, colNames, i, seen, indexesToKeep) ==
    IF i < 0 THEN [indexes |-> indexesToKeep, err |-> "nil"]
    ELSE LET rowKey == getRowKey(f, i, colNames, 1, "") IN
         IF rowKey.err # "nil" THEN [indexes |-> <<>>, err |-> "could not get row key"]
         ELSE IF rowKey.key \in seen THEN KeepLast(f, colNames, i - 1, seen, indexesToKeep)
         ELSE KeepLast(f, colNames, i - 1, seen \cup {rowKey.key}, <<i>> \o indexesToKeep)

RECURSIVE KeepNone(_, _, _, _)
\* case "none": a row is kept when its key was counted once.
KeepNone(f, colNames, i, indexesToKeep) ==
    IF i >= RowCount(f) THEN [indexes |-> indexesToKeep, err |-> "nil"]
    ELSE LET key_ == getRowKey(f, i, colNames, 1, "") IN
         IF key_.err # "nil" THEN [indexes |-> <<>>, err |-> "could not get row key"]
         ELSE IF Cardinality({j \in 0..(RowCount(f) - 1) : getRowKey(f, j, colNames, 1, "").key = key_.key}) = 1
              THEN KeepNone(f, colNames, i + 1, Append(indexesToKeep, i))
              ELSE KeepNone(f, colNames, i + 1, indexesToKeep)

\* The switch on finalOptions.Keep; it has no default case.
IndexesToKeep(f, colNames, keep) ==
    CASE keep = "first" -> KeepFirst(f, colNames, 0, {}, <<>>)
      [] keep = "last" -> KeepLast(f, colNames, RowCount(f) - 1, {}, <<>>)
      [] keep = "none" -> KeepNone(f, colNames, 0, <<>>)
      [] OTHER -> [indexes |-> <<>>, err |-> "nil"]

\* getSubSlice of every column.
SubSlices(f, indexesToKeep) ==
    [c \in DOMAIN f |-> [k \in 1..Len(indexesToKeep) |-> f[c][indexesToKeep[k] + 1]]]

\* DropDuplicates: the store returned, the receiver afterwards, the error.
DropDuplicates(f, o) ==
    LET finalOptions == ParseDropOptions(o)
        colNames == IF Len(finalOptions.Subset) > 0 THEN finalOptions.Subset ELSE ColumnNames(f)
        kept == IndexesToKeep(f, colNames, finalOptions.Keep)
    IN  IF kept.err # "nil" THEN [df |-> NilDataFrame, receiver |-> f, err |-> kept.err]
        ELSE IF finalOptions.Inplace
        THEN [df |-> SubSlices(f, kept.indexes), receiver |-> SubSlices(f, kept.indexes), err |-> "nil"]
        ELSE [df |-> SubSlices(f, kept.indexes), receiver |-> f, err |-> "nil"]

\* A program that deduplicates one store once.
InitDrop ==
    /\ WriteIdle
    /\ sqlRows = NoRows
    /\ readOptions = <<>>
    /\ df \in DropFrames
    /\ dropOptions \in DropOptionArgs
    /\ other = NewDataFrame
    /\ key = NoKey
    /\ gdf = NoGroups
    /\ result = NoResult

CallDropDuplicates ==
    /\ result.op = "none"
    /\ LET r == DropDuplicates(df, dropOptions) IN
       /\ df' = r.receiver
       /\ result' = [op |-> "DropDuplicates", args |-> <<>>, df |-> r.df, err |-> r.err]
    /\ UNCHANGED <<pc, entry, options, opts, dialect, exists, nRows, batchStart, tx, issued, err,
                   driver, other, key, gdf, sqlRows, readOptions, dropOptions>>

NextDrop == CallDropDuplicates

SpecDrop == InitDrop /\ [][NextDrop]_vars

TypeOKDrop ==
    /\ df \in DropFrames
    /\ dropOptions \in DropOptionArgs
    /\ result.op \in {"none", "DropDuplicates"}
    /\ result.err \in {"", "nil", "could not get row key"}
    /\ result.err = "nil" => result.df \in DropFrames

\* The columns that identify duplicates: the Subset, or every column.
SubsetColumns(f, o) ==
    IF Len(o) > 0 /\ Len(o[1].Subset) > 0
    THEN {o[1].Subset[k] : k \in DOMAIN o[1].Subset}
    ELSE DOMAIN f

\* The rows (from 1) whose values on the columns S differ from every other row's.
UniqueRows(f, S) ==
    {i \in 1..RowCount(f) : \A j \in 1..RowCount(f) : j # i => \E c \in S : f[c][i] # f[c][j]}

\* g holds the rows idx[1], idx[2], ... of f.
HoldsRows(g, f, idx) ==
    /\ DOMAIN g = DOMAIN f
    /\ \A c \in DOMAIN f : g[c] = [k \in DOMAIN idx |-> f[c][idx[k]]]

\* The increasing sequences of rows of f that contain all the rows in U.
OrderedSelections(f, U) ==
    {idx \in UNION {[1..n -> 1..RowCount(f)] : n \in 0..RowCount(f)} :
        /\ \A k \in DOMAIN idx : k > 1 => idx[k - 1] < idx[k]
        /\ U \subseteq {idx[k] : k \in DOMAIN idx}}

\* C30: a call of DropDuplicates whose subset columns exist returns a store
\* made of rows of the receiver in their order, every row without a
\* duplicate on the subset columns among them, and with Inplace false it
\* leaves the receiver as it was.
C30_Original ==
    [][(result.op = "none" /\ result'.op = "DropDuplicates"
         /\ SubsetColumns(df, dropOptions) \subseteq DOMAIN df) =>
            /\ result'.err = "nil"
            /\ \E idx \in OrderedSelections(df, UniqueRows(df, SubsetColumns(df, dropOptions))) :
                  HoldsRows(result'.df, df, idx)
            /\ ~ParseDropOptions(dropOptions).Inplace => df' = df]_vars
====
